---- MODULE Spec2Model ----
(***************************************************************************)
(* Model of the capture session of useMediaRecorder.ts: acquisition of the *)
(* display, microphone and webcam sources, audio mixing, the choice of the *)
(* recorded video track, the platform recorder with its data, stop and     *)
(* error events, the stop handshake of stopRecording() with its safety     *)
(* timeouts, and cleanup().                                                *)
(*                                                                         *)
(* The program is single-threaded and event-driven.  Every action below is *)
(* one task of the event loop: the synchronous run of a handler or of an   *)
(* async function from one suspension point (await) to the next.  Such a   *)
(* run is written as an operator from the state before it to the state     *)
(* after it (a record with one field per variable), so that a handler      *)
(* that calls cleanup() or a stored resolver is the composition of their   *)
(* operators, as in the source.                                            *)
(*                                                                         *)
(* The platform is modelled at its interface: getDisplayMedia and          *)
(* getUserMedia grant or deny; play() resolves or rejects; the recorder    *)
(* follows the MediaStream Recording API (stop() makes the state inactive  *)
(* at once and queues the stop event; an error while recording fires the   *)
(* error event, makes the state inactive and queues the stop event); a     *)
(* queued stop event may arrive at any later time or never, which is the   *)
(* case the source's safety timeout is written for.                        *)
(***************************************************************************)
EXTENDS Integers, Sequences, FiniteSets, TLC

\* The null handle: every "x | null" variable of the source holds NULL or a
\* positive identifier of the object it refers to.
NULL == 0

\* ------------------------------------------------------------ bounds
\* Number of startRecording() calls made on the instance.
MaxCalls == 2
\* Number of sessions started by a caller that starts one only when none is
\* live.
MaxSessions == 1
\* Number of stopRecording() calls made on the instance.
MaxStops == 2
\* Length of the chunk sequence at which the platform delivers no more data.
MaxChunks == 2
\* Largest size of a delivered chunk (0 is the empty chunk).
MaxChunkSize == 2
\* Number of toggleWebcam() calls made on the instance.
MaxToggles == 2
\* Number of setWebcamLayout() calls made on the instance.
MaxLayoutSets == 2
\* Number of layout steps taken after one setWebcamLayout() call.
MaxLayoutSteps == 21
\* Number of streams the parent can pass to the preview.
MaxPreviewStreams == 2
\* Number of times the parent sets the preview's stream prop.
MaxPropSets == 3
\* Number of polls the watch view's timer issues.
MaxPolls == 3
\* Number of animation frames of the document.
MaxFrames == 4
\* Number of seconds the elapsed timer counts.
MaxTicks == 2
\* Raw display sizes run up to this many steps of 128 columns and of 90 rows.
MaxSizeSteps == 32

Calls == 1..MaxCalls
StopCalls == 1..MaxStops
ChunkSizes == 0..MaxChunkSize

\* ------------------------------------------------------------ state
VARIABLES
  \* refs and module-level variables of useMediaRecorder (lines 4-32)
  isRecording, recordingTime, error, previewUrl, isBrowserSupported,
  webcamEnabled, webcamStream, mediaRecorder, chunks, mediaStream,
  timerInterval, stopResolve, stopReject, audioContext, audioDestination,
  animationFrameId, displayVideoEl, webcamVideoEl, displayStream,
  \* platform objects
  supported,      \* the MIME types MediaRecorder.isTypeSupported accepts
  live,           \* the tracks whose readyState is "live"
  dispTracks,     \* display stream d -> [video, audio]: the tracks it has
  recState,       \* recorder r -> "none" | "recording" | "inactive"
  recStopQueued,  \* recorder r -> its stop event is queued, not yet fired
  recErrored,     \* recorder r -> its error event has fired
  recMime,        \* recorder r -> the mimeType its handlers closed over
  ctxOpen,        \* the audio contexts that are open
  intervals,      \* the setInterval handles that are active
  rafPending,     \* the requestAnimationFrame callbacks that are pending,
                  \* in the order of their requests: [id, loop]
  attached,       \* the hidden video elements whose srcObject is a stream
  onended,        \* display stream d -> an onended handler is registered
  finalStream,    \* stream m -> [video, audio]: what was added to it
  blobOf,         \* session r -> the blob its latest object URL refers to
  \* calls in progress
  startPc,        \* call c -> where startRecording() is suspended
  startErr,       \* call c -> the error startRecording() rejected with
  micStream,      \* call c -> its local micStream is non-null
  origTrack,      \* call c -> the display stream of originalDisplayTrack
  finalAudioStream, \* call c -> its local finalAudioStream is non-null
  camCalls,       \* initWebcam() calls of mount/toggle awaiting getUserMedia
  toggles,        \* toggleWebcam() calls made so far
  stopPromise,    \* stop call k -> "unused" | "pending" | "resolved" | "rejected"
  stopReason,     \* stop call k -> the error it rejected with
  stopBlob,       \* stop call k -> the blob it resolved with
  timeout3,       \* stop call k -> its 3 s timeout: "none" | "armed" | "done"
  timeout500,     \* stop call k -> its 500 ms timeout
  \* history (written only, never read by the program)
  sealed,         \* session r -> number of object URLs made of its chunks
  stopOpen,       \* stop call k -> accepted, its settling handler not yet returned
  cleanups,       \* stop call k -> cleanup() invocations while it was open
  callHist,       \* call c -> what the call did (see NoHist)
  ended,          \* the display streams the user stopped sharing
  stoppedByEnd,   \* the recorders the onended handler stopped
  settles,        \* stop call k -> number of resolve()/reject() calls on it
  settledBy,      \* stop call k -> the handler that settled it
  cleanupAtSettle,  \* stop call k -> cleanups[k] when resolve/reject ran
  stopRec,        \* stop call k -> the recorder it called stop() on
  typeErrors,     \* number of calls of a null stopResolve/stopReject
  \* compositor layout (lines 24-25), in millionths of the canvas
  currentLayout,  \* [x, y, size]: where the webcam circle is drawn
  targetLayout,   \* [x, y, size]: where setWebcamLayout asked it to be
  \* history of the layout (written only, never read by the program)
  layoutSets,     \* number of setWebcamLayout() calls made so far
  layoutSteps,    \* number of layout steps since the target was last set
  layoutFrom,     \* currentLayout when the target was last set
  camReturn,      \* what the latest initWebcam() returned: "stream" | "null"
  toggleLog,      \* the toggleWebcam() calls so far: the branch each took
                  \* and the initWebcam() calls pending when it was made
  \* the WebcamPreview component
  previewFile,    \* the file the mounted component was built from
  propsStream,    \* props.stream: NULL or a stream
  videoRendered,  \* the <video> element of the v-if block is in the DOM
  videoEl,        \* videoEl.value is that element
  srcObject,      \* the element's srcObject: NULL or a stream
  watchedStream,  \* the value of props.stream the watcher saw last
  previewDirty,   \* props.stream was set and the scheduler has not flushed
  propSets,       \* number of times the parent has set props.stream
  \* the watch view (refs and pollingInterval, lines 11-16)
  watchStatus,    \* recording.value.processingStatus, "null" before a response
  watchLoading,   \* loading
  watchError,     \* error
  isProcessing,
  pollingInterval,  \* NULL or the handle of the polling timer
  pollTimers,     \* the interval handles of the view that are active
  loadPc,         \* where loadRecording() is: "idle" | "awaiting" | "done"
  pollsInFlight,  \* polls awaiting their response
  watchUnmounted, \* the view was unmounted
  \* history of the watch view (written only, never read by the program)
  pollsIssued,    \* number of polls issued so far
  terminalSeen,   \* a terminal response or a failed load was processed
  \* the compositor: the closure of each startCompositingLoop() call and
  \* the animation frames of the document
  lastFrameTime,  \* loop c -> its lastFrameTime
  camSource,      \* loop c -> the webcam stream its camVideo element plays
  frameTime,      \* the timestamp of the latest animation frame
  frames,         \* number of animation frames so far
  \* history of the compositor (written only, never read by the program)
  callbacks,      \* loop c -> number of compositeFrame calls
  drawn,          \* loop c -> number of frames drawn
  overlays,       \* loop c -> number of frames drawn with the overlay
  \* the compositing canvas (startRecording, lines 260-282)
  settings,       \* width and height of the display track's settings
  canvas,         \* width and height of the canvas, 0 by 0 before there is one
  \* the host component (onUnmounted, lines 564-567)
  unmounted,      \* the component has unmounted
  unmountPc       \* history: startPc at the time of the unmount

vars == <<
  isRecording, recordingTime, error, previewUrl, isBrowserSupported,
  webcamEnabled, webcamStream, mediaRecorder, chunks, mediaStream,
  timerInterval, stopResolve, stopReject, audioContext, audioDestination,
  animationFrameId, displayVideoEl, webcamVideoEl, displayStream,
  supported, live, dispTracks, recState, recStopQueued, recErrored,
  recMime, ctxOpen, intervals, rafPending, attached, onended, finalStream,
  blobOf, startPc, startErr, micStream, origTrack, finalAudioStream,
  camCalls, toggles, stopPromise, stopReason, stopBlob, timeout3,
  timeout500, sealed, stopOpen, cleanups, callHist, ended, stoppedByEnd,
  settles, settledBy, cleanupAtSettle, stopRec, typeErrors, currentLayout,
  targetLayout, layoutSets, layoutSteps, layoutFrom, camReturn, toggleLog,
  previewFile, propsStream, videoRendered, videoEl, srcObject,
  watchedStream, previewDirty, propSets, watchStatus, watchLoading,
  watchError, isProcessing, pollingInterval, pollTimers, loadPc,
  pollsInFlight, watchUnmounted, pollsIssued, terminalSeen, lastFrameTime,
  camSource, frameTime, frames, callbacks, drawn, overlays, settings,
  canvas, unmounted, unmountPc>>

\* The current state as one record.
Cur == [
  isRecording |-> isRecording, recordingTime |-> recordingTime,
  error |-> error, previewUrl |-> previewUrl,
  isBrowserSupported |-> isBrowserSupported,
  webcamEnabled |-> webcamEnabled, webcamStream |-> webcamStream,
  mediaRecorder |-> mediaRecorder, chunks |-> chunks,
  mediaStream |-> mediaStream, timerInterval |-> timerInterval,
  stopResolve |-> stopResolve, stopReject |-> stopReject,
  audioContext |-> audioContext, audioDestination |-> audioDestination,
  animationFrameId |-> animationFrameId, displayVideoEl |-> displayVideoEl,
  webcamVideoEl |-> webcamVideoEl, displayStream |-> displayStream,
  supported |-> supported, live |-> live, dispTracks |-> dispTracks,
  recState |-> recState, recStopQueued |-> recStopQueued,
  recErrored |-> recErrored, recMime |-> recMime, ctxOpen |-> ctxOpen,
  intervals |-> intervals, rafPending |-> rafPending,
  attached |-> attached, onended |-> onended, finalStream |-> finalStream,
  blobOf |-> blobOf, startPc |-> startPc, startErr |-> startErr,
  micStream |-> micStream, origTrack |-> origTrack,
  finalAudioStream |-> finalAudioStream, camCalls |-> camCalls,
  toggles |-> toggles, stopPromise |-> stopPromise,
  stopReason |-> stopReason, stopBlob |-> stopBlob, timeout3 |-> timeout3,
  timeout500 |-> timeout500, sealed |-> sealed, stopOpen |-> stopOpen,
  cleanups |-> cleanups, callHist |-> callHist, ended |-> ended,
  stoppedByEnd |-> stoppedByEnd, settles |-> settles,
  settledBy |-> settledBy, cleanupAtSettle |-> cleanupAtSettle,
  stopRec |-> stopRec, typeErrors |-> typeErrors,
  currentLayout |-> currentLayout, targetLayout |-> targetLayout,
  layoutSets |-> layoutSets, layoutSteps |-> layoutSteps,
  layoutFrom |-> layoutFrom, camReturn |-> camReturn,
  toggleLog |-> toggleLog, previewFile |-> previewFile,
  propsStream |-> propsStream, videoRendered |-> videoRendered,
  videoEl |-> videoEl, srcObject |-> srcObject,
  watchedStream |-> watchedStream, previewDirty |-> previewDirty,
  propSets |-> propSets, watchStatus |-> watchStatus,
  watchLoading |-> watchLoading, watchError |-> watchError,
  isProcessing |-> isProcessing, pollingInterval |-> pollingInterval,
  pollTimers |-> pollTimers, loadPc |-> loadPc,
  pollsInFlight |-> pollsInFlight, watchUnmounted |-> watchUnmounted,
  pollsIssued |-> pollsIssued, terminalSeen |-> terminalSeen,
  lastFrameTime |-> lastFrameTime, camSource |-> camSource,
  frameTime |-> frameTime, frames |-> frames, callbacks |-> callbacks,
  drawn |-> drawn, overlays |-> overlays, settings |-> settings,
  canvas |-> canvas, unmounted |-> unmounted, unmountPc |-> unmountPc]

\* The next state is the record r.
Apply(r) ==
  /\ isRecording' = r.isRecording
  /\ recordingTime' = r.recordingTime
  /\ error' = r.error
  /\ previewUrl' = r.previewUrl
  /\ isBrowserSupported' = r.isBrowserSupported
  /\ webcamEnabled' = r.webcamEnabled
  /\ webcamStream' = r.webcamStream
  /\ mediaRecorder' = r.mediaRecorder
  /\ chunks' = r.chunks
  /\ mediaStream' = r.mediaStream
  /\ timerInterval' = r.timerInterval
  /\ stopResolve' = r.stopResolve
  /\ stopReject' = r.stopReject
  /\ audioContext' = r.audioContext
  /\ audioDestination' = r.audioDestination
  /\ animationFrameId' = r.animationFrameId
  /\ displayVideoEl' = r.displayVideoEl
  /\ webcamVideoEl' = r.webcamVideoEl
  /\ displayStream' = r.displayStream
  /\ supported' = r.supported
  /\ live' = r.live
  /\ dispTracks' = r.dispTracks
  /\ recState' = r.recState
  /\ recStopQueued' = r.recStopQueued
  /\ recErrored' = r.recErrored
  /\ recMime' = r.recMime
  /\ ctxOpen' = r.ctxOpen
  /\ intervals' = r.intervals
  /\ rafPending' = r.rafPending
  /\ attached' = r.attached
  /\ onended' = r.onended
  /\ finalStream' = r.finalStream
  /\ blobOf' = r.blobOf
  /\ startPc' = r.startPc
  /\ startErr' = r.startErr
  /\ micStream' = r.micStream
  /\ origTrack' = r.origTrack
  /\ finalAudioStream' = r.finalAudioStream
  /\ camCalls' = r.camCalls
  /\ toggles' = r.toggles
  /\ stopPromise' = r.stopPromise
  /\ stopReason' = r.stopReason
  /\ stopBlob' = r.stopBlob
  /\ timeout3' = r.timeout3
  /\ timeout500' = r.timeout500
  /\ sealed' = r.sealed
  /\ stopOpen' = r.stopOpen
  /\ cleanups' = r.cleanups
  /\ callHist' = r.callHist
  /\ ended' = r.ended
  /\ stoppedByEnd' = r.stoppedByEnd
  /\ settles' = r.settles
  /\ settledBy' = r.settledBy
  /\ cleanupAtSettle' = r.cleanupAtSettle
  /\ stopRec' = r.stopRec
  /\ typeErrors' = r.typeErrors
  /\ currentLayout' = r.currentLayout
  /\ targetLayout' = r.targetLayout
  /\ layoutSets' = r.layoutSets
  /\ layoutSteps' = r.layoutSteps
  /\ layoutFrom' = r.layoutFrom
  /\ camReturn' = r.camReturn
  /\ toggleLog' = r.toggleLog
  /\ previewFile' = r.previewFile
  /\ propsStream' = r.propsStream
  /\ videoRendered' = r.videoRendered
  /\ videoEl' = r.videoEl
  /\ srcObject' = r.srcObject
  /\ watchedStream' = r.watchedStream
  /\ previewDirty' = r.previewDirty
  /\ propSets' = r.propSets
  /\ watchStatus' = r.watchStatus
  /\ watchLoading' = r.watchLoading
  /\ watchError' = r.watchError
  /\ isProcessing' = r.isProcessing
  /\ pollingInterval' = r.pollingInterval
  /\ pollTimers' = r.pollTimers
  /\ loadPc' = r.loadPc
  /\ pollsInFlight' = r.pollsInFlight
  /\ watchUnmounted' = r.watchUnmounted
  /\ pollsIssued' = r.pollsIssued
  /\ terminalSeen' = r.terminalSeen
  /\ lastFrameTime' = r.lastFrameTime
  /\ camSource' = r.camSource
  /\ frameTime' = r.frameTime
  /\ frames' = r.frames
  /\ callbacks' = r.callbacks
  /\ drawn' = r.drawn
  /\ overlays' = r.overlays
  /\ settings' = r.settings
  /\ canvas' = r.canvas
  /\ unmounted' = r.unmounted
  /\ unmountPc' = r.unmountPc

\* ------------------------------------------------------------ helpers
\* The candidate content types of getSupportedMimeType, in priority order.
types == <<"video/webm;codecs=vp8,opus", "video/webm;codecs=vp9,opus",
           "video/webm", "video/mp4">>

\* A variant of getSupportedMimeType that returns the last candidate the
\* platform supports.
getSupportedMimeType_Last(s) ==
  IF \E i \in 1..Len(types) : types[i] \in s.supported
  THEN types[CHOOSE i \in 1..Len(types) :
               /\ types[i] \in s.supported
               /\ \A j \in (i + 1)..Len(types) : types[j] \notin s.supported]
  ELSE "null"

\* getSupportedMimeType(): the first candidate the platform supports, or
\* "null".
getSupportedMimeType(s) ==
  IF \E i \in 1..Len(types) : types[i] \in s.supported
  THEN types[CHOOSE i \in 1..Len(types) :
               /\ types[i] \in s.supported
               /\ \A j \in 1..(i - 1) : types[j] \notin s.supported]
  ELSE "null"

\* The history of a call that has done nothing yet: the number of display,
\* microphone and webcam requests it made, which of them were denied, what
\* it found at the choice of the video track ("held": a webcam stream,
\* "none held", or "undecided"), the compositor loops, audio contexts and
\* hidden video elements it created, and the cleanup() runs of its session.
NoHist == [display |-> 0, mic |-> 0, webcam |-> 0, displayDenied |-> FALSE,
           micDenied |-> FALSE, webcamDenied |-> FALSE, decision |-> "undecided", loops |-> 0,
           contexts |-> 0, elements |-> 0, cleanups |-> 0]

\* The session in progress: the latest call of startRecording(), or NULL.
Session(s) ==
  IF \A c \in Calls : s.startPc[c] = "idle" THEN NULL
  ELSE CHOOSE c \in Calls :
         /\ s.startPc[c] # "idle"
         /\ \A b \in Calls : b > c => s.startPc[b] = "idle"

\* No blob.
NoBlob == [size |-> 0, type |-> "null", by |-> "none"]

\* blob.size of new Blob(chunks): the sum of the chunk sizes.
RECURSIVE BlobSize(_)
BlobSize(cs) == IF cs = <<>> THEN 0 ELSE Head(cs) + BlobSize(Tail(cs))

\* stream.getTracks() of display stream d.
DisplayTracks(s, d) ==
  (IF s.dispTracks[d].video THEN {<<"displayVideo", d>>} ELSE {})
    \cup (IF s.dispTracks[d].audio THEN {<<"displayAudio", d>>} ELSE {})

\* The video track added to final stream m.
FinalVideoTracks(s, m) ==
  IF s.finalStream[m].video = "display"
  THEN {<<"displayVideo", s.origTrack[m]>>}
  ELSE IF s.finalStream[m].video = "canvas" THEN {<<"canvas", m>>} ELSE {}

\* The audio tracks added to final stream m.
FinalAudioTracks(s, m) ==
  IF s.finalStream[m].audio THEN {<<"mixed", m>>} ELSE {}

\* mediaStream.getTracks() of final stream m.
FinalTracks(s, m) == FinalVideoTracks(s, m) \cup FinalAudioTracks(s, m)

\* A handle the platform hands out: one that names no object still in use.
NewHandle(used) == CHOOSE n \in 1..(Cardinality(used) + 1) : n \notin used

\* The ids of the pending frame callbacks.
RafIds(q) == {q[i].id : i \in 1..Len(q)}

\* cancelAnimationFrame(id): the callback with this id is pending no more.
cancelAnimationFrame(q, id) == SelectSeq(q, LAMBDA e : e.id # id)

\* requestAnimationFrame(compositeFrame) by loop c; the id it returns is
\* the id of the last callback of the queue.
requestAnimationFrame(s, c) ==
  [s EXCEPT !.rafPending =
              Append(@, [id |-> NewHandle(RafIds(@)), loop |-> c])]

\* The webcam streams that exist: the ones with a live track and the ones
\* a hidden video element still plays.
WebcamStreams(s) ==
  {t[2] : t \in {u \in s.live : u[1] = "webcam"}}
    \cup ({s.camSource[c] : c \in Calls} \ {NULL})

\* ------------------------------------------------------------ timer
startTimer(s) ==
  [s EXCEPT !.recordingTime = 0,
            !.timerInterval = NewHandle(s.intervals),
            !.intervals = @ \cup {NewHandle(s.intervals)}]

stopTimer(s) ==
  IF s.timerInterval # NULL
  THEN [s EXCEPT !.intervals = @ \ {s.timerInterval}, !.timerInterval = NULL]
  ELSE s

\* The callback of the interval startTimer() sets.
timerTick(s) == [s EXCEPT !.recordingTime = @ + 1]

\* ------------------------------------------------------------ webcam
\* A variant of initWebcam that reports the denial in error.
initWebcam_DenialInError(s, granted) ==
  IF granted
  THEN LET n == NewHandle(WebcamStreams(s))
       IN  [s EXCEPT !.webcamStream = n,
                     !.live = @ \cup {<<"webcam", n>>},
                     !.camReturn = "stream"]
  ELSE [s EXCEPT !.webcamEnabled = FALSE,
                 !.error = "Could not access webcam",
                 !.camReturn = "null"]

\* initWebcam() from the point where getUserMedia has answered.
initWebcam(s, granted) ==
  IF granted
  THEN LET n == NewHandle(WebcamStreams(s))
       IN  [s EXCEPT !.webcamStream = n,
                     !.live = @ \cup {<<"webcam", n>>},
                     !.camReturn = "stream"]
  ELSE [s EXCEPT !.webcamEnabled = FALSE, !.camReturn = "null"]

\* A variant of stopWebcam that stops the tracks and keeps the reference.
stopWebcam_KeepReference(s) ==
  IF s.webcamStream # NULL
  THEN [s EXCEPT !.live = @ \ {<<"webcam", s.webcamStream>>}]
  ELSE s

\* stopWebcam(): the tracks of the held stream are stopped and the
\* reference is cleared.  A webcam stream has one track, its video track.
stopWebcam(s) ==
  IF s.webcamStream # NULL
  THEN [s EXCEPT !.live = @ \ {<<"webcam", s.webcamStream>>},
                 !.webcamStream = NULL]
  ELSE s

\* toggleWebcam() up to its await.
toggleWebcam(s) ==
  IF s.webcamStream # NULL
  THEN [stopWebcam(s) EXCEPT
          !.webcamEnabled = FALSE, !.toggles = @ + 1,
          !.toggleLog = Append(@, [dir |-> "off", pending |-> s.camCalls])]
  ELSE [s EXCEPT
          !.webcamEnabled = TRUE, !.camCalls = @ + 1, !.toggles = @ + 1,
          !.toggleLog = Append(@, [dir |-> "on", pending |-> s.camCalls])]

\* ------------------------------------------------------------ cleanup
\* A variant of cleanup that stops the tracks of the final stream and keeps
\* the reference to it.
cleanup_KeepFinalStream(s) ==
  LET s1 == IF s.animationFrameId # NULL
            THEN [s EXCEPT !.rafPending =
                             cancelAnimationFrame(@, s.animationFrameId),
                           !.animationFrameId = NULL]
            ELSE s
      s2 == IF s1.displayVideoEl # NULL
            THEN [s1 EXCEPT !.attached = @ \ {<<"display", s1.displayVideoEl>>},
                            !.displayVideoEl = NULL]
            ELSE s1
      s3 == IF s2.webcamVideoEl # NULL
            THEN [s2 EXCEPT !.attached = @ \ {<<"webcam", s2.webcamVideoEl>>},
                            !.camSource[s2.webcamVideoEl] = NULL,
                            !.webcamVideoEl = NULL]
            ELSE s2
      s4 == IF s3.displayStream # NULL
            THEN [s3 EXCEPT !.live = @ \ DisplayTracks(s3, s3.displayStream),
                            !.displayStream = NULL]
            ELSE s3
      s5 == IF s4.mediaStream # NULL
            THEN [s4 EXCEPT !.live = @ \ FinalTracks(s4, s4.mediaStream)]
            ELSE s4
      s6 == IF s5.audioContext # NULL
            THEN [s5 EXCEPT !.ctxOpen = @ \ {s5.audioContext},
                            !.audioContext = NULL,
                            !.audioDestination = NULL]
            ELSE s5
      s7 == stopWebcam(stopTimer(s6))
  IN  [s7 EXCEPT !.cleanups = [k \in StopCalls |->
                                 IF s.stopOpen[k] THEN @[k] + 1 ELSE @[k]],
                 !.callHist = [c \in Calls |->
                                 IF c = Session(s)
                                 THEN [@[c] EXCEPT !.cleanups = @ + 1]
                                 ELSE @[c]]]

\* cleanup()
cleanup(s) ==
  LET s1 == IF s.animationFrameId # NULL
            THEN [s EXCEPT !.rafPending =
                             cancelAnimationFrame(@, s.animationFrameId),
                           !.animationFrameId = NULL]
            ELSE s
      s2 == IF s1.displayVideoEl # NULL
            THEN [s1 EXCEPT !.attached = @ \ {<<"display", s1.displayVideoEl>>},
                            !.displayVideoEl = NULL]
            ELSE s1
      s3 == IF s2.webcamVideoEl # NULL
            THEN [s2 EXCEPT !.attached = @ \ {<<"webcam", s2.webcamVideoEl>>},
                            !.camSource[s2.webcamVideoEl] = NULL,
                            !.webcamVideoEl = NULL]
            ELSE s2
      s4 == IF s3.displayStream # NULL
            THEN [s3 EXCEPT !.live = @ \ DisplayTracks(s3, s3.displayStream),
                            !.displayStream = NULL]
            ELSE s3
      s5 == IF s4.mediaStream # NULL
            THEN [s4 EXCEPT !.live = @ \ FinalTracks(s4, s4.mediaStream),
                            !.mediaStream = NULL]
            ELSE s4
      s6 == IF s5.audioContext # NULL
            THEN [s5 EXCEPT !.ctxOpen = @ \ {s5.audioContext},
                            !.audioContext = NULL,
                            !.audioDestination = NULL]
            ELSE s5
      s7 == stopWebcam(stopTimer(s6))
  IN  [s7 EXCEPT !.cleanups = [k \in StopCalls |->
                                 IF s.stopOpen[k] THEN @[k] + 1 ELSE @[k]],
                 !.callHist = [c \in Calls |->
                                 IF c = Session(s)
                                 THEN [@[c] EXCEPT !.cleanups = @ + 1]
                                 ELSE @[c]]]

\* onUnmounted: cleanup(), then stopWebcam().
onUnmounted(s) ==
  [stopWebcam(cleanup(s)) EXCEPT !.unmounted = TRUE, !.unmountPc = s.startPc]

\* ------------------------------------------------------------ stop promise
\* resolve(blob) of the promise of stop call k: settles it if it is pending.
resolve(s, k, blob, by) ==
  LET t == [s EXCEPT !.settles[k] = @ + 1]
  IN  IF s.stopPromise[k] = "pending"
      THEN [t EXCEPT !.stopPromise[k] = "resolved", !.stopBlob[k] = blob,
                     !.settledBy[k] = by,
                     !.cleanupAtSettle[k] = s.cleanups[k]]
      ELSE t

\* reject(err) of the promise of stop call k.
reject(s, k, msg, by) ==
  LET t == [s EXCEPT !.settles[k] = @ + 1]
  IN  IF s.stopPromise[k] = "pending"
      THEN [t EXCEPT !.stopPromise[k] = "rejected", !.stopReason[k] = msg,
                     !.settledBy[k] = by,
                     !.cleanupAtSettle[k] = s.cleanups[k]]
      ELSE t

\* A variant of StopResolveFn that resolves without cleanup().
StopResolveFn_NoCleanup(s, k, blob, by) == resolve(s, k, blob, by)

\* The function stored in stopResolve by stop call k: cleanup(), resolve.
StopResolveFn(s, k, blob, by) == resolve(cleanup(s), k, blob, by)

\* The function stored in stopReject by stop call k: cleanup(), reject.
StopRejectFn(s, k, msg, by) == reject(cleanup(s), k, msg, by)

\* ------------------------------------------------------------ recorder
\* MediaRecorder.stop() on recorder r, which is not inactive.
RecorderStop(s, r) ==
  [s EXCEPT !.recState[r] = "inactive", !.recStopQueued[r] = TRUE]

\* A variant of ondataavailable that keeps empty chunks too.
ondataavailable_KeepEmpty(s, size) == [s EXCEPT !.chunks = Append(@, size)]

\* ondataavailable
ondataavailable(s, size) ==
  IF size > 0 THEN [s EXCEPT !.chunks = Append(@, size)] ELSE s

\* new Blob(chunks, {type}) followed by previewUrl.value =
\* URL.createObjectURL(blob), in session r.
CreateObjectURL(s, r, type, by) ==
  [s EXCEPT !.blobOf[r] = [size |-> BlobSize(s.chunks), type |-> type,
                           by |-> by],
            !.sealed[r] = @ + 1,
            !.previewUrl = r]

\* onstop of recorder r
onstop(s, r) ==
  LET s1 == CreateObjectURL(s, r, s.recMime[r], "onstop")
      s2 == stopTimer([s1 EXCEPT !.isRecording = FALSE])
  IN  IF s2.stopResolve # NULL
      THEN [StopResolveFn(s2, s2.stopResolve, s2.blobOf[r], "onstop")
              EXCEPT !.stopResolve = NULL, !.stopReject = NULL]
      ELSE s2

\* onerror
onerror(s) ==
  LET s1 == [s EXCEPT !.error = "Recording error occurred"]
      s2 == IF s1.stopReject # NULL
            THEN [StopRejectFn(s1, s1.stopReject, "Recording error occurred",
                               "onerror")
                    EXCEPT !.stopResolve = NULL, !.stopReject = NULL]
            ELSE s1
  IN  cleanup(s2)

\* A variant of ondisplayended that does not look at the recorder's state.
ondisplayended_NoStateCheck(s) ==
  IF s.isRecording /\ s.mediaRecorder # NULL
  THEN [RecorderStop(s, s.mediaRecorder)
          EXCEPT !.stoppedByEnd = @ \cup {s.mediaRecorder}]
  ELSE s

\* The onended handler of the display video track.
ondisplayended(s) ==
  IF /\ s.isRecording
     /\ s.mediaRecorder # NULL
     /\ s.recState[s.mediaRecorder] = "recording"
  THEN [RecorderStop(s, s.mediaRecorder)
          EXCEPT !.stoppedByEnd = @ \cup {s.mediaRecorder}]
  ELSE s

\* ------------------------------------------------------------ stopRecording
\* finishStop(): calling a null stopResolve/stopReject throws a TypeError out
\* of the timer callback, which ends the function there.
finishStop(s) ==
  LET type == IF getSupportedMimeType(s) = "null" THEN "video/webm"
              ELSE getSupportedMimeType(s)
      thrown(t) == [t EXCEPT !.typeErrors = @ + 1]
      done(t) == cleanup([t EXCEPT !.stopResolve = NULL, !.stopReject = NULL])
  IN  IF BlobSize(s.chunks) > 0
      THEN LET s1 == CreateObjectURL(s, s.mediaRecorder, type, "finishStop")
               s2 == stopTimer([s1 EXCEPT !.isRecording = FALSE])
           IN  IF s2.stopResolve = NULL THEN thrown(s2)
               ELSE done(StopResolveFn(s2, s2.stopResolve,
                                       s2.blobOf[s.mediaRecorder],
                                       "finishStop"))
      ELSE IF s.stopReject = NULL THEN thrown(s)
           ELSE done(StopRejectFn(s, s.stopReject, "No data recorded",
                                  "finishStop"))

\* A variant of stopRecording without the guard on an inactive recorder.
stopRecording_NoInactiveGuard(s, k) ==
  IF s.mediaRecorder = NULL
  THEN reject([s EXCEPT !.stopPromise[k] = "pending"], k,
              "No active recording", "guard")
  ELSE [RecorderStop(s, s.mediaRecorder)
          EXCEPT !.stopPromise[k] = "pending",
                 !.stopResolve = k, !.stopReject = k,
                 !.timeout3[k] = "armed",
                 !.stopRec[k] = s.mediaRecorder,
                 !.stopOpen[k] = TRUE]

\* The executor of the promise stopRecording() returns, for stop call k.
stopRecording(s, k) ==
  IF s.mediaRecorder = NULL
  THEN reject([s EXCEPT !.stopPromise[k] = "pending"], k,
              "No active recording", "guard")
  ELSE IF s.recState[s.mediaRecorder] = "inactive"
  THEN reject([s EXCEPT !.stopPromise[k] = "pending"], k,
              "Recording already stopped", "guard")
  ELSE [RecorderStop(s, s.mediaRecorder)
          EXCEPT !.stopPromise[k] = "pending",
                 !.stopResolve = k, !.stopReject = k,
                 !.timeout3[k] = "armed",
                 !.stopRec[k] = s.mediaRecorder,
                 !.stopOpen[k] = TRUE]

\* A variant of safetyTimeout that never finalizes.
safetyTimeout_NoFinish(s, k) == [s EXCEPT !.timeout3[k] = "done"]

\* The callback of the 3 s safety timeout of stop call k.
safetyTimeout(s, k) ==
  LET s1 == [s EXCEPT !.timeout3[k] = "done"]
  IN  IF s1.stopResolve # NULL
      THEN IF /\ s1.mediaRecorder # NULL
              /\ s1.recState[s1.mediaRecorder] = "recording"
           THEN [s1 EXCEPT !.timeout500[k] = "armed"]
           ELSE finishStop(s1)
      ELSE s1

\* The callback of the 500 ms timeout set after requestData().
requestDataTimeout(s, k) == finishStop([s EXCEPT !.timeout500[k] = "done"])

\* The handler returns: the stop calls it settled are no longer open.
EndHandler(s) ==
  [s EXCEPT !.stopOpen = [k \in StopCalls |->
                            @[k] /\ s.stopPromise[k] = "pending"]]

\* ------------------------------------------------------------ startRecording
\* The catch block of startRecording(): error.value, cleanup(), rethrow.
catchStart(s, c, msg) ==
  [cleanup([s EXCEPT !.error = msg])
     EXCEPT !.startPc[c] = "rejected", !.startErr[c] = msg]

\* A variant of createRecorder that leaves the mixed audio track out of the
\* final stream.
createRecorder_NoAudio(s, c, video, ctorOk) ==
  LET s1 == [s EXCEPT !.mediaStream = c,
                      !.finalStream[c] = [video |-> video, audio |-> FALSE]]
      mimeType == getSupportedMimeType(s1)
  IN  IF mimeType = "null"
      THEN catchStart(s1, c, "No supported video MIME type found")
      ELSE IF ~ctorOk
      THEN catchStart(s1, c, "MediaRecorder constructor failed")
      ELSE [startTimer([s1 EXCEPT !.mediaRecorder = c,
                                  !.recState[c] = "recording",
                                  !.recMime[c] = mimeType,
                                  !.isRecording = TRUE])
              EXCEPT !.startPc[c] = "resolved"]

\* Final stream, MIME type, recorder construction and start.  ctorOk: a
\* MediaRecorder constructor (the default one or the one with the explicit
\* mimeType) returned a recorder rather than throw.
createRecorder(s, c, video, ctorOk) ==
  LET s1 == [s EXCEPT !.mediaStream = c,
                      !.finalStream[c] = [video |-> video,
                                          audio |-> s.finalAudioStream[c]]]
      mimeType == getSupportedMimeType(s1)
  IN  IF mimeType = "null"
      THEN catchStart(s1, c, "No supported video MIME type found")
      ELSE IF ~ctorOk
      THEN catchStart(s1, c, "MediaRecorder constructor failed")
      ELSE [startTimer([s1 EXCEPT !.mediaRecorder = c,
                                  !.recState[c] = "recording",
                                  !.recMime[c] = mimeType,
                                  !.isRecording = TRUE])
              EXCEPT !.startPc[c] = "resolved"]

\* From the audio mixing to the choice of the video track: up to the await
\* of displayVideoEl.play() when a webcam stream is held, to the end of
\* startRecording() otherwise.
mixAndChoose(s, c, ctorOk) ==
  IF s.displayStream = NULL
  THEN catchStart(s, c, "TypeError: displayStream is null")
  ELSE
    LET d == s.displayStream
        hasSystemAudio == s.dispTracks[d].audio
        hasMicAudio == s.micStream[c]
        s1 == IF hasSystemAudio \/ hasMicAudio
              THEN [s EXCEPT !.audioContext = c,
                             !.audioDestination = c,
                             !.ctxOpen = @ \cup {c},
                             !.live = @ \cup {<<"mixed", c>>},
                             !.finalAudioStream[c] = TRUE,
                             !.callHist[c].contexts = @ + 1]
              ELSE s
    IN  IF ~s1.dispTracks[d].video
        THEN catchStart(s1, c, "No video track available from screen capture")
        ELSE IF s1.webcamStream # NULL
        THEN [s1 EXCEPT !.origTrack[c] = d,
                        !.displayVideoEl = c,
                        !.attached = @ \cup {<<"display", c>>},
                        !.startPc[c] = "awaitPlayDisplay",
                        !.callHist[c].decision = "held",
                        !.callHist[c].elements = @ + 1]
        ELSE createRecorder([s1 EXCEPT !.origTrack[c] = d,
                                       !.onended[d] = TRUE,
                                       !.callHist[c].decision = "none held"],
                            c, "display", ctorOk)

\* startRecording() up to the await of getDisplayMedia.
startRecording(s, c) ==
  IF ~s.isBrowserSupported
  THEN [s EXCEPT !.startPc[c] = "rejected",
                 !.startErr[c] = "Browser does not support screen recording"]
  ELSE [s EXCEPT !.error = "null", !.chunks = <<>>,
                 !.startPc[c] = "awaitDisplay",
                 !.callHist[c].display = @ + 1]

\* A variant of afterDisplay that goes on to the microphone after a denial.
afterDisplay_DenialNotFatal(s, c, granted, video, audio) ==
  IF ~granted
  THEN [s EXCEPT !.callHist[c].displayDenied = TRUE,
                 !.startPc[c] = "awaitMic",
                 !.callHist[c].mic = @ + 1]
  ELSE [s EXCEPT !.displayStream = c,
                 !.dispTracks[c] = [video |-> video, audio |-> audio],
                 !.live = @ \cup (IF video THEN {<<"displayVideo", c>>} ELSE {})
                            \cup (IF audio THEN {<<"displayAudio", c>>} ELSE {}),
                 !.startPc[c] = "awaitMic",
                 !.callHist[c].mic = @ + 1]

\* getDisplayMedia answered: up to the await of getUserMedia (microphone).
afterDisplay(s, c, granted, video, audio) ==
  IF ~granted
  THEN catchStart([s EXCEPT !.callHist[c].displayDenied = TRUE], c,
                  "Permission denied")
  ELSE [s EXCEPT !.displayStream = c,
                 !.dispTracks[c] = [video |-> video, audio |-> audio],
                 !.live = @ \cup (IF video THEN {<<"displayVideo", c>>} ELSE {})
                            \cup (IF audio THEN {<<"displayAudio", c>>} ELSE {}),
                 !.startPc[c] = "awaitMic",
                 !.callHist[c].mic = @ + 1]

\* A variant of afterMic in which a denied microphone fails the call.
afterMic_DenialFatal(s, c, granted, ctorOk) ==
  IF ~granted
  THEN catchStart([s EXCEPT !.callHist[c].micDenied = TRUE], c,
                  "Microphone denied")
  ELSE LET s1 == [s EXCEPT !.micStream[c] = TRUE,
                           !.live = @ \cup {<<"microphone", c>>}]
       IN  IF s1.webcamEnabled /\ s1.webcamStream = NULL
           THEN [s1 EXCEPT !.startPc[c] = "awaitWebcam",
                           !.callHist[c].webcam = @ + 1]
           ELSE mixAndChoose(s1, c, ctorOk)

\* getUserMedia (microphone) answered: up to the await of initWebcam() when
\* the webcam is enabled and no stream is held, else onwards.
afterMic(s, c, granted, ctorOk) ==
  LET s1 == IF granted
            THEN [s EXCEPT !.micStream[c] = TRUE,
                           !.live = @ \cup {<<"microphone", c>>}]
            ELSE [s EXCEPT !.callHist[c].micDenied = TRUE]
  IN  IF s1.webcamEnabled /\ s1.webcamStream = NULL
      THEN [s1 EXCEPT !.startPc[c] = "awaitWebcam",
                      !.callHist[c].webcam = @ + 1]
      ELSE mixAndChoose(s1, c, ctorOk)

\* initWebcam() answered inside startRecording().
afterWebcam(s, c, granted, ctorOk) ==
  mixAndChoose([initWebcam(s, granted)
                  EXCEPT !.callHist[c].webcamDenied = ~granted],
               c, ctorOk)

\* displayVideoEl.play() answered: up to the await of webcamVideoEl.play().
afterPlayDisplay(s, c, played) ==
  IF ~played
  THEN catchStart(s, c, "play() rejected")
  ELSE [s EXCEPT !.webcamVideoEl = c,
                 !.attached = IF s.webcamStream # NULL
                              THEN @ \cup {<<"webcam", c>>} ELSE @,
                 !.camSource[c] = s.webcamStream,
                 !.startPc[c] = "awaitPlayWebcam",
                 !.callHist[c].elements = @ + 1]

\* startCompositingLoop() of call c: the first frame callback is requested;
\* its handle is not stored.
startCompositingLoop(s, c) ==
  [requestAnimationFrame(s, c) EXCEPT !.lastFrameTime[c] = 0]

\* A variant of afterPlayWebcam that records the raw display track.
afterPlayWebcam_RawTrack(s, c, played, ctorOk) ==
  IF ~played
  THEN catchStart(s, c, "play() rejected")
  ELSE LET s1 == startCompositingLoop(s, c)
           s2 == [s1 EXCEPT !.live = @ \cup {<<"canvas", c>>},
                            !.onended[s.origTrack[c]] = TRUE,
                            !.callHist[c].loops = @ + 1]
       IN  createRecorder(s2, c, "display", ctorOk)

\* webcamVideoEl.play() answered: compositor, canvas track, onended handler,
\* and onwards to the end of startRecording().
afterPlayWebcam(s, c, played, ctorOk) ==
  IF ~played
  THEN catchStart(s, c, "play() rejected")
  ELSE LET s1 == startCompositingLoop(s, c)
           s2 == [s1 EXCEPT !.live = @ \cup {<<"canvas", c>>},
                            !.onended[s.origTrack[c]] = TRUE,
                            !.callHist[c].loops = @ + 1]
       IN  createRecorder(s2, c, "canvas", ctorOk)

\* ------------------------------------------------------------ preview
\* The two files of the WebcamPreview component and the flush timing each
\* gives its watcher: watch() without options runs before the component
\* renders, { flush: 'post' } after it.
PreviewFiles == {"components/WebcamPreview.vue", "part_002"}
FlushOf(file) == IF file = "part_002" THEN "post" ELSE "pre"

\* The values of the stream prop: null or a stream.
PreviewStreams == 0..MaxPreviewStreams

\* attachStream(): the element, when the ref holds one, gets the prop.
attachStream(s) ==
  IF s.videoEl THEN [s EXCEPT !.srcObject = s.propsStream] ELSE s

\* The template: the v-if block is rendered when the prop is non-null.  A
\* created element has no srcObject; the ref follows the element.
renderPreview(s) ==
  IF s.propsStream # NULL
  THEN IF s.videoRendered THEN s
       ELSE [s EXCEPT !.videoRendered = TRUE, !.videoEl = TRUE,
                      !.srcObject = NULL]
  ELSE [s EXCEPT !.videoRendered = FALSE, !.videoEl = FALSE,
                 !.srcObject = NULL]

\* The job of watch(() => props.stream, attachStream): the callback runs
\* when the value differs from the one seen last.
watchStream(s) ==
  IF s.propsStream # s.watchedStream
  THEN attachStream([s EXCEPT !.watchedStream = s.propsStream])
  ELSE s

\* mount(): setup, first render, then the mounted hook.
mountPreview(s, file, stream) ==
  attachStream(renderPreview(
    [s EXCEPT !.previewFile = file, !.propsStream = stream,
              !.watchedStream = stream]))

\* One flush of the scheduler: the watcher before or after the render, as
\* the file says.
flushPreview(s) ==
  LET s1 == IF FlushOf(s.previewFile) = "pre" THEN watchStream(s) ELSE s
      s2 == renderPreview(s1)
      s3 == IF FlushOf(s.previewFile) = "post" THEN watchStream(s2) ELSE s2
  IN  [s3 EXCEPT !.previewDirty = FALSE]

\* ------------------------------------------------------------ watch view
\* What the processing-status service answers: a status, or a failure of
\* the request.
Statuses == {"PROCESSING", "READY", "FAILED"}
Answers == Statuses \cup {"error"}

\* A variant of stopPolling that forgets the handle and leaves the timer.
stopPolling_KeepTimer(s) ==
  IF s.pollingInterval # NULL
  THEN [s EXCEPT !.pollingInterval = NULL]
  ELSE s

\* stopPolling(): the timer, if any, is cleared and forgotten.
stopPolling(s) ==
  IF s.pollingInterval # NULL
  THEN [s EXCEPT !.pollTimers = @ \ {s.pollingInterval},
                 !.pollingInterval = NULL]
  ELSE s

\* startPolling(): a timer is set unless one is held.
startPolling(s) ==
  IF s.pollingInterval = NULL
  THEN LET h == NewHandle(s.pollTimers)
       IN  [s EXCEPT !.pollTimers = @ \cup {h}, !.pollingInterval = h]
  ELSE s

\* loadRecording() up to its await.
loadRecording(s) ==
  [s EXCEPT !.watchLoading = TRUE, !.loadPc = "awaiting"]

\* loadRecording() from the answer of getRecordingMetadata on.
afterLoad(s, answer) ==
  LET s1 ==
        IF answer = "error"
        THEN [stopPolling(s) EXCEPT !.watchError = "Failed to load recording",
                                    !.terminalSeen = TRUE]
        ELSE LET r == [s EXCEPT !.watchStatus = answer]
             IN  IF answer = "PROCESSING"
                 THEN [startPolling([r EXCEPT !.isProcessing = TRUE])
                         EXCEPT !.watchError = "null"]
                 ELSE [stopPolling([r EXCEPT !.isProcessing = FALSE])
                         EXCEPT !.watchError = "null",
                                !.terminalSeen = TRUE]
  IN  [s1 EXCEPT !.watchLoading = FALSE, !.loadPc = "done"]

\* The timer's callback up to its await: a poll is issued.
pollTick(s) ==
  [s EXCEPT !.pollsInFlight = @ + 1, !.pollsIssued = @ + 1]

\* The timer's callback from the answer on.
afterPoll(s, answer) ==
  LET s0 == [s EXCEPT !.pollsInFlight = @ - 1]
  IN  IF answer = "error" THEN s0
      ELSE LET r == [s0 EXCEPT !.watchStatus = answer]
           IN  IF answer # "PROCESSING"
               THEN [stopPolling([r EXCEPT !.isProcessing = FALSE])
                       EXCEPT !.terminalSeen = TRUE]
               ELSE r

\* onUnmounted.
unmountWatch(s) == [stopPolling(s) EXCEPT !.watchUnmounted = TRUE]

\* ------------------------------------------------------------ layout
\* Layout coordinates are the source's normalized numbers in millionths:
\* 0.1 is 100000.  LERP_FACTOR is the source's 0.15 in hundredths.
LERP_FACTOR == 15

\* The initial currentLayout and targetLayout.
DefaultLayout == [x |-> 100000, y |-> 900000, size |-> 90000]

\* The layouts setLayout(mode) passes to setWebcamLayout, by mode.
LayoutModes == {"tl", "tr", "bl", "br", "center"}
LayoutOf(mode) ==
  CASE mode = "tl" -> [x |-> 100000, y |-> 150000, size |-> 90000]
    [] mode = "tr" -> [x |-> 900000, y |-> 150000, size |-> 90000]
    [] mode = "bl" -> [x |-> 100000, y |-> 850000, size |-> 90000]
    [] mode = "br" -> [x |-> 900000, y |-> 850000, size |-> 90000]
    [] mode = "center" -> [x |-> 500000, y |-> 500000, size |-> 270000]

\* A variant of lerp that subtracts the increment.
lerp_Away(c, t) ==
  IF t >= c THEN c - ((t - c) * LERP_FACTOR) \div 100
            ELSE c + ((c - t) * LERP_FACTOR) \div 100

\* c += (t - c) * LERP_FACTOR on one axis.  The increment is rounded
\* toward zero to a millionth, where the source rounds the sum to the
\* nearest double.
lerp(c, t) ==
  IF t >= c THEN c + ((t - c) * LERP_FACTOR) \div 100
            ELSE c - ((c - t) * LERP_FACTOR) \div 100

\* The layout step of a drawn frame: each axis moves toward its target.
interpolateLayout(s) ==
  [s EXCEPT !.currentLayout =
              [x |-> lerp(@.x, s.targetLayout.x),
               y |-> lerp(@.y, s.targetLayout.y),
               size |-> lerp(@.size, s.targetLayout.size)],
            !.layoutSteps = @ + 1]

\* A variant of setWebcamLayout that moves what is drawn to the layout at
\* once.
setWebcamLayout_Snap(s, layout) ==
  [s EXCEPT !.targetLayout =
              [x |-> layout.x, y |-> layout.y, size |-> layout.size],
            !.currentLayout =
              [x |-> layout.x, y |-> layout.y, size |-> layout.size],
            !.layoutSets = @ + 1,
            !.layoutSteps = 0,
            !.layoutFrom = s.currentLayout]

\* setWebcamLayout(layout): the target takes the three numbers.
setWebcamLayout(s, layout) ==
  [s EXCEPT !.targetLayout =
              [x |-> layout.x, y |-> layout.y, size |-> layout.size],
            !.layoutSets = @ + 1,
            !.layoutSteps = 0,
            !.layoutFrom = s.currentLayout]

\* ------------------------------------------------------------ compositor
\* Timestamps are the source's milliseconds in thirds of a millisecond, so
\* that FRAME_INTERVAL = 1000 / TARGET_FPS is the whole number 100.
TARGET_FPS == 30
FRAME_INTERVAL == 3000 \div TARGET_FPS

\* The time between two animation frames: a 60 Hz and a 30 Hz display.
FramePeriods == {50, 100}

\* A variant of compositeFrame that never records the time of the frame it
\* draws.
compositeFrame_NoStamp(s, c, timestamp, ready) ==
  LET s1 == requestAnimationFrame([s EXCEPT !.callbacks[c] = @ + 1], c)
      s2 == [s1 EXCEPT !.animationFrameId = s1.rafPending[Len(s1.rafPending)].id]
  IN  IF timestamp - s2.lastFrameTime[c] < FRAME_INTERVAL
      THEN s2
      ELSE LET s3 == [s2 EXCEPT !.drawn[c] = @ + 1]
               s4 == interpolateLayout(s3)
               s5 == IF ready /\ s4.webcamStream # NULL
                     THEN [s4 EXCEPT !.overlays[c] = @ + 1]
                     ELSE s4
               s6 == requestAnimationFrame(s5, c)
           IN  [s6 EXCEPT !.animationFrameId =
                            s6.rafPending[Len(s6.rafPending)].id]

\* compositeFrame(timestamp) of loop c.  ready: the camVideo element of
\* the loop has readyState >= 2.  The element itself exists whenever the
\* loop does.
compositeFrame(s, c, timestamp, ready) ==
  LET s1 == requestAnimationFrame([s EXCEPT !.callbacks[c] = @ + 1], c)
      s2 == [s1 EXCEPT !.animationFrameId = s1.rafPending[Len(s1.rafPending)].id]
  IN  IF timestamp - s2.lastFrameTime[c] < FRAME_INTERVAL
      THEN s2
      ELSE LET s3 == [s2 EXCEPT !.lastFrameTime[c] = timestamp,
                                !.drawn[c] = @ + 1]
               s4 == interpolateLayout(s3)
               s5 == IF ready /\ s4.webcamStream # NULL
                     THEN [s4 EXCEPT !.overlays[c] = @ + 1]
                     ELSE s4
               s6 == requestAnimationFrame(s5, c)
           IN  [s6 EXCEPT !.animationFrameId =
                            s6.rafPending[Len(s6.rafPending)].id]

\* The callbacks q, pending when the frame began, run in the order of their
\* requests.
RECURSIVE runCallbacks(_, _, _, _)
runCallbacks(s, q, timestamp, ready) ==
  IF q = <<>> THEN s
  ELSE runCallbacks(compositeFrame(s, Head(q).loop, timestamp,
                                   Head(q).loop \in ready),
                    Tail(q), timestamp, ready)

\* One animation frame: the document's list of callbacks is emptied and
\* each callback of it is called with the timestamp of the frame.
animationFrame(s, timestamp, ready) ==
  runCallbacks([s EXCEPT !.rafPending = <<>>, !.frameTime = timestamp,
                         !.frames = @ + 1],
               s.rafPending, timestamp, ready)

\* ------------------------------------------------------------ canvas size
MAX_WIDTH == 1920
MAX_HEIGHT == 1080

\* The widths and heights the display track reports: multiples of 128
\* columns and of 90 rows and their neighbours; 0 stands for a setting the
\* track does not report.
RawWidths ==
  {n \in {i * 128 + j : i \in 0..MaxSizeSteps, j \in {-1, 0, 1}} : n >= 0}
RawHeights ==
  {n \in {i * 90 + j : i \in 0..MaxSizeSteps, j \in {-1, 0, 1}} : n >= 0}

\* The double a / b is the quotient itself when the odd part of b divides a.
RECURSIVE OddPart(_)
OddPart(b) == IF b % 2 = 0 THEN OddPart(b \div 2) ELSE b
ExactRatio(a, b) == a % OddPart(b) = 0

\* Math.round(n * ratio) for the double ratio = a / b: the integer nearest
\* n * a / b, a half rounding up.  When a / b is not a binary fraction the
\* product of the doubles may fall just below a half that the exact
\* product hits, and then it rounds down.
Math_round(n, a, b) ==
  LET up == (2 * n * a + b) \div (2 * b)
  IN  IF (2 * n * a) % (2 * b) = b /\ ~ExactRatio(a, b)
      THEN {up - 1, up}
      ELSE {up}

\* A variant of canvasSize that scales by the larger of the two ratios.
canvasSize_MaxRatio(w, h) ==
  LET rawWidth == IF w = 0 THEN 1920 ELSE w
      rawHeight == IF h = 0 THEN 1080 ELSE h
  IN  IF rawWidth > MAX_WIDTH \/ rawHeight > MAX_HEIGHT
      THEN LET byWidth == MAX_WIDTH * rawHeight >= MAX_HEIGHT * rawWidth
               a == IF byWidth THEN MAX_WIDTH ELSE MAX_HEIGHT
               b == IF byWidth THEN rawWidth ELSE rawHeight
           IN  {[width |-> W, height |-> H] :
                  W \in Math_round(rawWidth, a, b),
                  H \in Math_round(rawHeight, a, b)}
      ELSE {[width |-> rawWidth, height |-> rawHeight]}

\* The sizes the canvas can get for the settings (w, h) of the display
\* track.  The ratio is MAX_WIDTH / width when that is the smaller of the
\* two quotients, MAX_HEIGHT / height otherwise.
canvasSize(w, h) ==
  LET rawWidth == IF w = 0 THEN 1920 ELSE w
      rawHeight == IF h = 0 THEN 1080 ELSE h
  IN  IF rawWidth > MAX_WIDTH \/ rawHeight > MAX_HEIGHT
      THEN LET byWidth == MAX_WIDTH * rawHeight <= MAX_HEIGHT * rawWidth
               a == IF byWidth THEN MAX_WIDTH ELSE MAX_HEIGHT
               b == IF byWidth THEN rawWidth ELSE rawHeight
           IN  {[width |-> W, height |-> H] :
                  W \in Math_round(rawWidth, a, b),
                  H \in Math_round(rawHeight, a, b)}
      ELSE {[width |-> rawWidth, height |-> rawHeight]}

\* ------------------------------------------------------------ initial state
\* The platforms: which of the candidate types isTypeSupported accepts.
Platforms == {{}, {types[3], types[4]}}

\* Every variable but the settings of the display track.
InitRest ==
  /\ isRecording = FALSE
  /\ recordingTime = 0
  /\ isBrowserSupported \in BOOLEAN
  /\ error = IF isBrowserSupported THEN "null"
             ELSE "MediaRecorder API is not supported in your browser"
  /\ previewUrl = NULL
  /\ webcamEnabled = TRUE
  /\ webcamStream = NULL
  /\ mediaRecorder = NULL
  /\ chunks = <<>>
  /\ mediaStream = NULL
  /\ timerInterval = NULL
  /\ stopResolve = NULL
  /\ stopReject = NULL
  /\ audioContext = NULL
  /\ audioDestination = NULL
  /\ animationFrameId = NULL
  /\ displayVideoEl = NULL
  /\ webcamVideoEl = NULL
  /\ displayStream = NULL
  /\ supported \in Platforms
  /\ live = {}
  /\ dispTracks = [d \in Calls |-> [video |-> FALSE, audio |-> FALSE]]
  /\ recState = [r \in Calls |-> "none"]
  /\ recStopQueued = [r \in Calls |-> FALSE]
  /\ recErrored = [r \in Calls |-> FALSE]
  /\ recMime = [r \in Calls |-> "null"]
  /\ ctxOpen = {}
  /\ intervals = {}
  /\ rafPending = <<>>
  /\ attached = {}
  /\ onended = [d \in Calls |-> FALSE]
  /\ finalStream = [m \in Calls |-> [video |-> "none", audio |-> FALSE]]
  /\ blobOf = [r \in Calls |-> NoBlob]
  /\ startPc = [c \in Calls |-> "idle"]
  /\ startErr = [c \in Calls |-> "null"]
  /\ micStream = [c \in Calls |-> FALSE]
  /\ origTrack = [c \in Calls |-> NULL]
  /\ finalAudioStream = [c \in Calls |-> FALSE]
  /\ camCalls \in IF isBrowserSupported THEN {0, 1} ELSE {0}
  /\ toggles = 0
  /\ stopPromise = [k \in StopCalls |-> "unused"]
  /\ stopReason = [k \in StopCalls |-> "null"]
  /\ stopBlob = [k \in StopCalls |-> NoBlob]
  /\ timeout3 = [k \in StopCalls |-> "none"]
  /\ timeout500 = [k \in StopCalls |-> "none"]
  /\ sealed = [r \in Calls |-> 0]
  /\ stopOpen = [k \in StopCalls |-> FALSE]
  /\ cleanups = [k \in StopCalls |-> 0]
  /\ callHist = [c \in Calls |-> NoHist]
  /\ ended = {}
  /\ stoppedByEnd = {}
  /\ settles = [k \in StopCalls |-> 0]
  /\ settledBy = [k \in StopCalls |-> "none"]
  /\ cleanupAtSettle = [k \in StopCalls |-> 0]
  /\ stopRec = [k \in StopCalls |-> NULL]
  /\ typeErrors = 0
  /\ currentLayout = DefaultLayout
  /\ targetLayout = DefaultLayout
  /\ layoutSets = 0
  /\ layoutSteps = 0
  /\ layoutFrom = DefaultLayout
  /\ camReturn = "none"
  /\ toggleLog = <<>>
  /\ previewFile = "none"
  /\ propsStream = NULL
  /\ videoRendered = FALSE
  /\ videoEl = FALSE
  /\ srcObject = NULL
  /\ watchedStream = NULL
  /\ previewDirty = FALSE
  /\ propSets = 0
  /\ watchStatus = "null"
  /\ watchLoading = TRUE
  /\ watchError = "null"
  /\ isProcessing = FALSE
  /\ pollingInterval = NULL
  /\ pollTimers = {}
  /\ loadPc = "idle"
  /\ pollsInFlight = 0
  /\ watchUnmounted = FALSE
  /\ pollsIssued = 0
  /\ terminalSeen = FALSE
  /\ lastFrameTime = [c \in Calls |-> 0]
  /\ camSource = [c \in Calls |-> NULL]
  /\ frameTime = 0
  /\ frames = 0
  /\ callbacks = [c \in Calls |-> 0]
  /\ drawn = [c \in Calls |-> 0]
  /\ overlays = [c \in Calls |-> 0]
  /\ canvas = [width |-> 0, height |-> 0]
  /\ unmounted = FALSE
  /\ unmountPc = [c \in Calls |-> "idle"]

\* The state after construction.
Init ==
  /\ InitRest
  /\ settings = [width |-> 0, height |-> 0]

\* The state after construction, for each size the display track can report
\* once it is acquired.
InitCanvas ==
  /\ InitRest
  /\ settings \in [width : RawWidths, height : RawHeights]

\* ------------------------------------------------------------ actions
InFlight(c) == startPc[c] \notin {"idle", "resolved", "rejected"}

\* A session is live: a startRecording() call is suspended, the session is
\* recording, or a stopRecording() call is waiting for its handshake.
SessionLive ==
  \/ \E c \in Calls : InFlight(c)
  \/ isRecording
  \/ \E k \in StopCalls : stopPromise[k] = "pending"

\* The caller calls startRecording(): call c is the next unused call.  The
\* caller starts a session when none is live and the camera prompt of
\* mount or toggle has been answered.
StartRecording(c) ==
  /\ c <= MaxSessions
  /\ startPc[c] = "idle"
  /\ \A b \in Calls : b < c => startPc[b] # "idle"
  /\ ~SessionLive
  /\ camCalls = 0
  /\ Apply(startRecording(Cur, c))

DisplayAnswer(c) ==
  /\ startPc[c] = "awaitDisplay"
  /\ \E granted, video, audio \in BOOLEAN :
       /\ granted \/ (~video /\ ~audio)
       /\ Apply(afterDisplay(Cur, c, granted, video, audio))

MicAnswer(c) ==
  /\ startPc[c] = "awaitMic"
  /\ \E granted, ctorOk \in BOOLEAN : Apply(afterMic(Cur, c, granted, ctorOk))

WebcamAnswer(c) ==
  /\ startPc[c] = "awaitWebcam"
  /\ \E granted, ctorOk \in BOOLEAN :
       Apply(afterWebcam(Cur, c, granted, ctorOk))

PlayDisplayAnswer(c) ==
  /\ startPc[c] = "awaitPlayDisplay"
  /\ \E played \in BOOLEAN : Apply(afterPlayDisplay(Cur, c, played))

PlayWebcamAnswer(c) ==
  /\ startPc[c] = "awaitPlayWebcam"
  /\ \E played, ctorOk \in BOOLEAN :
       Apply(afterPlayWebcam(Cur, c, played, ctorOk))

\* The caller calls stopRecording(): stop call k is the next unused one.
StopRecording(k) ==
  /\ stopPromise[k] = "unused"
  /\ \A j \in StopCalls : j < k => stopPromise[j] # "unused"
  /\ Apply(EndHandler(stopRecording(Cur, k)))

SafetyTimeout(k) ==
  /\ timeout3[k] = "armed"
  /\ Apply(EndHandler(safetyTimeout(Cur, k)))

\* The 500 ms timeout fires.  It is armed only by a safety timeout that
\* finds the recorder still "recording"; with a recorder that is inactive
\* from stop() on and a caller that starts no session while one is live,
\* that does not happen, so Next below has no step of it.
RequestDataTimeout(k) ==
  /\ timeout500[k] = "armed"
  /\ Apply(EndHandler(requestDataTimeout(Cur, k)))

\* The platform delivers a chunk to recorder r's ondataavailable.
DataAvailable(r) ==
  /\ recState[r] = "recording" \/ recStopQueued[r]
  /\ Len(chunks) < MaxChunks
  /\ \E size \in ChunkSizes : Apply(ondataavailable(Cur, size))

\* The platform fires recorder r's queued stop event.
StopEvent(r) ==
  /\ recStopQueued[r]
  /\ Apply(EndHandler(onstop([Cur EXCEPT !.recStopQueued[r] = FALSE], r)))

\* The platform fails while recorder r records or finishes its recording:
\* error event, once; then the recorder is inactive and its stop event
\* queued.
ErrorEvent(r) ==
  /\ recState[r] = "recording" \/ recStopQueued[r]
  /\ ~recErrored[r]
  /\ Apply(EndHandler(RecorderStop(
             onerror([Cur EXCEPT !.recErrored[r] = TRUE]), r)))

\* The user stops sharing display stream d: its tracks end and the onended
\* handler of the video track runs, if one is registered.
DisplayEnded(d) ==
  /\ <<"displayVideo", d>> \in live
  /\ LET s1 == [Cur EXCEPT !.live = @ \ DisplayTracks(Cur, d),
                            !.ended = @ \cup {d}]
     IN  Apply(IF s1.onended[d] THEN ondisplayended(s1) ELSE s1)

\* The user toggles the webcam, before a session starts or after it has
\* stopped.
ToggleWebcam ==
  /\ isBrowserSupported
  /\ toggles < MaxToggles
  /\ ~SessionLive
  /\ Apply(toggleWebcam(Cur))

\* getUserMedia answers an initWebcam() call made by mount or toggleWebcam().
InitWebcamAnswer ==
  /\ camCalls > 0
  /\ \E granted \in BOOLEAN :
       Apply(initWebcam([Cur EXCEPT !.camCalls = @ - 1], granted))

\* The steps of one instance of the composable used by a caller that starts
\* a session only when none is live; the calls of stopRecording() and the
\* platform's events come at any time.
Next ==
  \/ \E c \in Calls : StartRecording(c)
  \/ \E c \in Calls : DisplayAnswer(c)
  \/ \E c \in Calls : MicAnswer(c)
  \/ \E c \in Calls : WebcamAnswer(c)
  \/ \E c \in Calls : PlayDisplayAnswer(c)
  \/ \E c \in Calls : PlayWebcamAnswer(c)
  \/ \E k \in StopCalls : StopRecording(k)
  \/ \E k \in StopCalls : SafetyTimeout(k)
  \/ \E r \in Calls : DataAvailable(r)
  \/ \E r \in Calls : StopEvent(r)
  \/ \E r \in Calls : ErrorEvent(r)
  \/ \E d \in Calls : DisplayEnded(d)
  \/ ToggleWebcam
  \/ InitWebcamAnswer

Spec == Init /\ [][Next]_vars

\* startRecording() is called whatever the state of the instance: while an
\* earlier call is suspended in an acquisition, while a session records,
\* or after it has stopped.
StartAnyTime(c) ==
  /\ startPc[c] = "idle"
  /\ \A b \in Calls : b < c => startPc[b] # "idle"
  /\ camCalls = 0
  /\ Apply(startRecording(Cur, c))

\* The steps of one instance whose caller does not wait for a session to
\* end before it starts the next: the calls of startRecording() and their
\* acquisitions, the end of a shared display, and the recorder's stop event.
NextOverlap ==
  \/ \E c \in Calls : StartAnyTime(c)
  \/ \E c \in Calls : DisplayAnswer(c)
  \/ \E c \in Calls : MicAnswer(c)
  \/ \E c \in Calls : WebcamAnswer(c)
  \/ \E c \in Calls : PlayDisplayAnswer(c)
  \/ \E c \in Calls : PlayWebcamAnswer(c)
  \/ \E d \in Calls : DisplayEnded(d)
  \/ \E r \in Calls : StopEvent(r)
  \/ InitWebcamAnswer

SpecOverlap == Init /\ [][NextOverlap]_vars

\* ------------------------------------------------------------ layout
\* The user picks a layout mode: setLayout(mode) calls setWebcamLayout.
SetLayout(mode) ==
  /\ layoutSets < MaxLayoutSets
  /\ Apply(setWebcamLayout(Cur, LayoutOf(mode)))

\* A drawn frame interpolates the layout.
LayoutStep ==
  /\ layoutSteps < MaxLayoutSteps
  /\ Apply(interpolateLayout(Cur))

NextLayout ==
  \/ \E mode \in LayoutModes : SetLayout(mode)
  \/ LayoutStep

SpecLayout == Init /\ [][NextLayout]_vars

\* ------------------------------------------------------------ preview
\* The parent mounts the component from one of its files with an initial
\* stream prop.
PreviewMount(file, stream) ==
  /\ previewFile = "none"
  /\ Apply(mountPreview(Cur, file, stream))

\* The parent sets the stream prop; the update is scheduled.
PreviewSetStream(stream) ==
  /\ previewFile # "none"
  /\ propSets < MaxPropSets
  /\ stream # propsStream
  /\ Apply([Cur EXCEPT !.propsStream = stream, !.previewDirty = TRUE,
                       !.propSets = @ + 1])

\* The scheduler flushes the update.
PreviewFlush ==
  /\ previewDirty
  /\ Apply(flushPreview(Cur))

NextPreview ==
  \/ \E file \in PreviewFiles, stream \in PreviewStreams :
       PreviewMount(file, stream)
  \/ \E stream \in PreviewStreams : PreviewSetStream(stream)
  \/ PreviewFlush

SpecPreview == Init /\ [][NextPreview]_vars

\* ------------------------------------------------------------ watch view
\* onMounted: the view loads the recording.
WatchMounted ==
  /\ loadPc = "idle"
  /\ ~watchUnmounted
  /\ Apply(loadRecording(Cur))

\* getRecordingMetadata answers the initial load.
LoadAnswer(answer) ==
  /\ loadPc = "awaiting"
  /\ Apply(afterLoad(Cur, answer))

\* An active timer of the view fires.
PollTick ==
  /\ pollTimers # {}
  /\ pollsIssued < MaxPolls
  /\ Apply(pollTick(Cur))

\* getRecordingMetadata answers a poll.
PollAnswer(answer) ==
  /\ pollsInFlight > 0
  /\ Apply(afterPoll(Cur, answer))

\* The user leaves the view.
WatchUnmounted ==
  /\ loadPc # "idle"
  /\ ~watchUnmounted
  /\ Apply(unmountWatch(Cur))

NextWatch ==
  \/ WatchMounted
  \/ \E answer \in Answers : LoadAnswer(answer)
  \/ PollTick
  \/ \E answer \in Answers : PollAnswer(answer)
  \/ WatchUnmounted

SpecWatch == Init /\ [][NextWatch]_vars

\* ------------------------------------------------------------ compositor
\* The document renders a frame, period after the latest one: the pending
\* frame callbacks run.  ready: the loops whose camVideo element has
\* decoded a frame; an element without a source has none.
AnimationFrame(period) ==
  /\ rafPending # <<>>
  /\ frames < MaxFrames
  /\ \E ready \in SUBSET {c \in Calls : camSource[c] # NULL} :
       Apply(animationFrame(Cur, frameTime + period, ready))

\* The user toggles the webcam while the controls show the toggle: at any
\* time before a recording is previewed.
ToggleAnyTime ==
  /\ isBrowserSupported
  /\ previewUrl = NULL
  /\ toggles < MaxToggles
  /\ Apply(toggleWebcam(Cur))

\* A session with its compositor: the frames of the document come while
\* the session starts, records and stops, and the user toggles the webcam
\* at any time.
NextFrames ==
  \/ \E c \in Calls : StartRecording(c)
  \/ \E c \in Calls : DisplayAnswer(c)
  \/ \E c \in Calls : MicAnswer(c)
  \/ \E c \in Calls : WebcamAnswer(c)
  \/ \E c \in Calls : PlayDisplayAnswer(c)
  \/ \E c \in Calls : PlayWebcamAnswer(c)
  \/ \E k \in StopCalls : StopRecording(k)
  \/ \E r \in Calls : StopEvent(r)
  \/ ToggleAnyTime
  \/ InitWebcamAnswer
  \/ \E period \in FramePeriods : AnimationFrame(period)

SpecFrames == Init /\ [][NextFrames]_vars

\* ------------------------------------------------------------ timer
\* An active interval of the elapsed timer fires.
TimerTick ==
  /\ intervals # {}
  /\ recordingTime < MaxTicks
  /\ Apply(timerTick(Cur))

\* A session with its elapsed timer: the interval fires while the session
\* records, stops or fails.
NextTicks ==
  \/ \E c \in Calls : StartRecording(c)
  \/ \E c \in Calls : DisplayAnswer(c)
  \/ \E c \in Calls : MicAnswer(c)
  \/ \E c \in Calls : WebcamAnswer(c)
  \/ \E c \in Calls : PlayDisplayAnswer(c)
  \/ \E c \in Calls : PlayWebcamAnswer(c)
  \/ \E k \in StopCalls : StopRecording(k)
  \/ \E k \in StopCalls : SafetyTimeout(k)
  \/ \E r \in Calls : StopEvent(r)
  \/ \E r \in Calls : ErrorEvent(r)
  \/ \E d \in Calls : DisplayEnded(d)
  \/ InitWebcamAnswer
  \/ TimerTick

SpecTicks == Init /\ [][NextTicks]_vars

\* ------------------------------------------------------------ canvas
\* startRecording creates the canvas of a compositor session and sizes it
\* from the settings of the display track.
SizeCanvas ==
  /\ canvas = [width |-> 0, height |-> 0]
  /\ \E size \in canvasSize(settings.width, settings.height) :
       Apply([Cur EXCEPT !.canvas = size])

NextCanvas == SizeCanvas

SpecCanvas == InitCanvas /\ [][NextCanvas]_vars

\* ------------------------------------------------------------ unmount
\* The host component unmounts, at any time.
Unmount ==
  /\ ~unmounted
  /\ Apply(onUnmounted(Cur))

\* The steps of an instance whose component can unmount: the caller starts
\* a session and toggles the webcam while the component is mounted; the
\* acquisitions and play() calls answer before or after the unmount.
NextUnmount ==
  \/ \E c \in Calls : ~unmounted /\ StartRecording(c)
  \/ \E c \in Calls : DisplayAnswer(c)
  \/ \E c \in Calls : MicAnswer(c)
  \/ \E c \in Calls : WebcamAnswer(c)
  \/ \E c \in Calls : PlayDisplayAnswer(c)
  \/ \E c \in Calls : PlayWebcamAnswer(c)
  \/ ~unmounted /\ ToggleWebcam
  \/ InitWebcamAnswer
  \/ Unmount

SpecUnmount == Init /\ [][NextUnmount]_vars

\* The step of SafetyTimeout(k) as the timer shows it: the armed timeout of
\* stop call k fires.  No other step takes timeout3[k] from "armed" to
\* "done", and SafetyTimeout(k) is enabled exactly when timeout3[k] is
\* "armed".
TimerFires(k) ==
  /\ timeout3[k] = "armed"
  /\ timeout3' = [timeout3 EXCEPT ![k] = "done"]

\* The timers of the event loop fire: an armed safety timeout runs its
\* callback.  Nothing is assumed of the recorder's stop event.
SpecTimers == Spec /\ \A k \in StopCalls : WF_timeout3(TimerFires(k))

\* The step of StopEvent(r) as the recorder shows it: the queued stop event
\* of recorder r is delivered.
StopDelivered(r) ==
  /\ recStopQueued[r]
  /\ recStopQueued' = [recStopQueued EXCEPT ![r] = FALSE]

\* The platform delivers the stop event it queued at MediaRecorder.stop().
SpecDelivery == Spec /\ \A r \in Calls : WF_recStopQueued(StopDelivered(r))

\* ------------------------------------------------------------ properties
\* Stop call k was accepted: it reached recorder.stop().
Accepted(k) == stopRec[k] # NULL

\* The promise of stop call k has settled.
Settled(k) == stopPromise[k] \in {"resolved", "rejected"}

\* C1: the stop promise never resolves with an empty blob (a natural stop
\* that finds no chunks rejects with "No data recorded"), and previewUrl is
\* never set to an artifact built from no data.
C1_NeverEmptyArtifact ==
  /\ \A k \in StopCalls :
       /\ stopPromise[k] = "resolved" => stopBlob[k].size > 0
       /\ settledBy[k] = "onstop" /\ stopPromise[k] = "rejected"
            => stopReason[k] = "No data recorded"
  /\ previewUrl # NULL => blobOf[previewUrl].size > 0

C3_HandshakeOnce ==
  /\ \A k \in StopCalls : settles[k] <= 1
  /\ typeErrors = 0
  /\ \A r \in Calls : sealed[r] <= 1

\* A call of stopRecording() that finds a stop call pending, or no recorder
\* to stop, is rejected with the guard's message and changes nothing else.
GuardedStop(k) ==
  /\ mediaRecorder = NULL
       => /\ stopPromise'[k] = "rejected"
          /\ stopReason'[k] = "No active recording"
  /\ mediaRecorder # NULL /\ recState[mediaRecorder] = "inactive"
       => /\ stopPromise'[k] = "rejected"
          /\ stopReason'[k] = "Recording already stopped"
  /\ (\E j \in StopCalls : stopPromise[j] = "pending")
       => /\ stopPromise'[k] = "rejected"
          /\ stopReason'[k] \in {"No active recording",
                                 "Recording already stopped"}
          /\ stopResolve' = stopResolve
          /\ stopReject' = stopReject
          /\ cleanups' = cleanups
          /\ callHist' = callHist
          /\ \A j \in StopCalls : stopPromise[j] = "pending"
                                    => stopPromise'[j] = "pending"

ForcedFinal(k) ==
  IF BlobSize(chunks) > 0
  THEN /\ stopPromise'[k] = "resolved"
       /\ stopBlob'[k].size = BlobSize(chunks)
  ELSE /\ stopPromise'[k] = "rejected"
       /\ stopReason'[k] = "No data recorded"

\* C5: every accepted stopRecording() settles even if the stop event never
\* comes: the safety timeout finalizes from the chunks there are, resolving
\* if they are non-empty and rejecting with "No data recorded" if not.
C5_AcceptedStopSettles ==
  /\ \A k \in StopCalls :
       (Accepted(k) /\ stopPromise[k] = "pending") ~> Settled(k)
  /\ [][\A k \in StopCalls :
          settledBy[k] = "none" /\ settledBy'[k] = "finishStop"
            => ForcedFinal(k)]_vars

\* C5, a state where its case happened: the safety timeout settled a stop
\* call whose recorder's stop event has still not been delivered.
C5_SettledWithoutStopEvent ==
  \E k \in StopCalls :
    /\ Accepted(k)
    /\ settledBy[k] = "finishStop"
    /\ timeout3[k] = "done"
    /\ recStopQueued[stopRec[k]]

\* The user stopped sharing display stream d in this step.
EndsNow(d) == d \notin ended /\ d \in ended'

\* The session is recording and its recorder's state is "recording".
RecorderRecording ==
  isRecording /\ mediaRecorder # NULL /\ recState[mediaRecorder] = "recording"

\* C6: when the display video track ends while the session is recording,
\* the recorder is stopped, and the stop event that follows takes the
\* session out of Recording with previewUrl sealed from the chunks there
\* are; when the track ends at any other time the observer changes nothing.
C6_DisplayEndStops ==
  /\ [][\A d \in Calls :
          EndsNow(d) =>
            IF RecorderRecording
            THEN /\ recState'[mediaRecorder] = "inactive"
                 /\ recStopQueued'[mediaRecorder]
                 /\ stoppedByEnd' = stoppedByEnd \cup {mediaRecorder}
            ELSE Cur' = [Cur EXCEPT !.live = live', !.ended = ended']]_vars
  /\ [][\A r \in stoppedByEnd :
          recStopQueued[r] /\ ~recStopQueued'[r]
            => /\ ~isRecording'
               /\ previewUrl' = r
               /\ sealed'[r] = sealed[r] + 1
               /\ blobOf'[r].size = BlobSize(chunks)]_vars
  /\ \A r \in Calls :
       (r \in stoppedByEnd /\ recStopQueued[r] /\ isRecording)
         ~> (~isRecording /\ sealed[r] >= 1)

\* C6, a state where its case happened: on the compositor path the display
\* track ended, the recorder was stopped by the observer, and the stop
\* event has sealed the artifact.
C6_EndedOnCompositorPath ==
  \E r \in stoppedByEnd :
    /\ finalStream[r].video = "canvas"
    /\ origTrack[r] \in ended
    /\ ~isRecording
    /\ previewUrl = r
    /\ blobOf[r].size > 0

\* C7: a call whose display acquisition failed is rejected with that
\* failure, error holds its message, cleanup() has run, no microphone or
\* webcam request was made, no recorder exists, isRecording is false and no
\* timer runs; every call asks for the display exactly once.
C7_DisplayFailureFatal ==
  \A c \in Calls :
    /\ callHist[c].display <= 1
    /\ InFlight(c) \/ startPc[c] = "resolved" => callHist[c].display = 1
    /\ callHist[c].displayDenied =>
         /\ callHist[c].display = 1
         /\ startPc[c] = "rejected"
         /\ startErr[c] = "Permission denied"
         /\ callHist[c].cleanups >= 1
         /\ callHist[c].mic = 0
         /\ callHist[c].webcam = 0
         /\ recState[c] = "none"
         /\ mediaRecorder # c
         /\ c = Session(Cur) =>
              /\ \/ error = "Permission denied"
                 \/ /\ error = "Recording error occurred"
                    /\ \E r \in Calls : recErrored[r]
              /\ ~isRecording
              /\ timerInterval = NULL
              /\ intervals = {}

\* C7, a state where its case happened: the display request of a call was
\* denied and the call has been rejected.
C7_DisplayDenied ==
  \E c \in Calls :
    /\ callHist[c].displayDenied
    /\ startPc[c] = "rejected"
    /\ error = "Permission denied"

\* The failures that end startRecording() whatever the microphone and the
\* webcam answered; the last is that of a call whose display stream the
\* cleanup() of an earlier recorder's late error event took away.
OtherFatal == {"No video track available from screen capture",
               "No supported video MIME type found",
               "MediaRecorder constructor failed",
               "play() rejected",
               "TypeError: displayStream is null"}

\* C8: a denied microphone or webcam does not fail startRecording(): the
\* call is rejected only for a failure of another kind, and otherwise
\* reaches Recording with error null and only the denied source absent.
C8_MicWebcamFailureNotFatal ==
  \A c \in Calls :
    callHist[c].micDenied \/ callHist[c].webcamDenied =>
      /\ callHist[c].displayDenied = FALSE
      /\ startPc[c] = "rejected" => startErr[c] \in OtherFatal
      /\ (/\ startPc[c] # "rejected"
          /\ c = Session(Cur)
          /\ \A r \in Calls : ~recErrored[r])
           => error = "null"
      /\ callHist[c].micDenied
           => /\ ~micStream[c]
              /\ <<"microphone", c>> \notin live
      /\ callHist[c].webcamDenied /\ c = Session(Cur) /\ toggles = 0
           => webcamStream = NULL /\ ~webcamEnabled
      /\ startPc[c] = "resolved" =>
           /\ recState[c] # "none"
           /\ recMime[c] # "null"
           /\ callHist[c].micDenied
                => (finalStream[c].audio <=> dispTracks[c].audio)
           /\ callHist[c].webcamDenied
                => /\ finalStream[c].video = "display"
                   /\ callHist[c].decision = "none held"

\* C8, a state where its case happened: microphone and webcam were both
\* denied and the session is recording.
C8_RecordingWithoutMicAndWebcam ==
  \E c \in Calls :
    /\ callHist[c].micDenied
    /\ callHist[c].webcamDenied
    /\ startPc[c] = "resolved"
    /\ isRecording
    /\ recState[c] = "recording"
    /\ error = "null"

\* C9: the video track is chosen once: with a webcam stream held at the
\* decision the compositor loop is started and the canvas track recorded;
\* with none held the raw display track is recorded and no compositor loop,
\* canvas or hidden video element is made; a session without microphone and
\* webcam has one video track, the raw display track, and at most one audio
\* track.
C9_VideoTrackChoice ==
  /\ [](\A c \in Calls :
          /\ callHist[c].decision = "held" /\ startPc[c] = "resolved"
               => /\ finalStream[c].video = "canvas"
                  /\ callHist[c].loops = 1
                  /\ callHist[c].elements = 2
          /\ callHist[c].decision = "none held"
               => /\ startPc[c] = "resolved"
                       => finalStream[c].video = "display"
                  /\ finalStream[c].video # "canvas"
                  /\ callHist[c].loops = 0
                  /\ callHist[c].elements = 0
                  /\ <<"canvas", c>> \notin live
                  /\ displayVideoEl # c /\ webcamVideoEl # c
          /\ (startPc[c] = "resolved" /\ ~micStream[c]
                /\ callHist[c].decision = "none held")
               => /\ FinalVideoTracks(Cur, c)
                       = {<<"displayVideo", origTrack[c]>>}
                  /\ Cardinality(FinalAudioTracks(Cur, c)) <= 1)
  /\ [][\A c \in Calls :
          /\ finalStream[c].video # "none" => finalStream'[c] = finalStream[c]
          /\ callHist[c].decision # "undecided"
               => callHist'[c].decision = callHist[c].decision]_vars

\* C9, a state where its case happened: a webcam stream was held at the
\* decision and the session records the canvas track.
C9_CompositorSession ==
  \E c \in Calls :
    /\ callHist[c].decision = "held"
    /\ startPc[c] = "resolved"
    /\ finalStream[c].video = "canvas"
    /\ rafPending # <<>>

\* Call c is past the audio mixing.
Mixed(c) ==
  \/ callHist[c].decision # "undecided"
  \/ startErr[c] = "No video track available from screen capture"

\* C10: the stream given to the recorder has exactly one video track and at
\* most one audio track; the audio context is created iff the display
\* stream has audio or the microphone was granted; the final stream has an
\* audio track iff the audio context was created.
C10_FinalStreamShape ==
  \A c \in Calls :
    /\ callHist[c].contexts <= 1
    /\ ~Mixed(c) => callHist[c].contexts = 0
    /\ Mixed(c) => (callHist[c].contexts = 1
                      <=> dispTracks[c].audio \/ micStream[c])
    /\ finalStream[c].video # "none" =>
         /\ Cardinality(FinalVideoTracks(Cur, c)) = 1
         /\ Cardinality(FinalAudioTracks(Cur, c)) <= 1
         /\ finalStream[c].audio <=> callHist[c].contexts = 1
    /\ recState[c] # "none" => finalStream[c].video # "none"

\* C10, a state where its case happened: system audio and microphone are
\* mixed into the one audio track of a recording session.
C10_TwoSourcesOneTrack ==
  \E c \in Calls :
    /\ recState[c] = "recording"
    /\ dispTracks[c].audio
    /\ micStream[c]
    /\ callHist[c].contexts = 1
    /\ FinalAudioTracks(Cur, c) = {<<"mixed", c>>}
    /\ Cardinality(FinalVideoTracks(Cur, c)) = 1

\* The four candidate content types.
Candidates == {types[i] : i \in 1..Len(types)}

\* Content type ty is the first candidate the platform supports.
FirstSupported(ty) ==
  \E i \in 1..Len(types) :
    /\ types[i] = ty
    /\ ty \in supported
    /\ \A j \in 1..(i - 1) : types[j] \notin supported

\* C11: a recorder's content type is the first candidate of the list that
\* the platform supports; with no candidate supported startRecording()
\* fails with "No supported video MIME type found" and no recorder is
\* constructed; every resolved artifact, from the stop event or from the
\* safety timeout, has one of the four candidates as its content type.
C11_ContentType ==
  /\ \A c \in Calls :
       /\ recState[c] # "none" => FirstSupported(recMime[c])
       /\ startErr[c] = "No supported video MIME type found"
            => /\ supported \cap Candidates = {}
               /\ startPc[c] = "rejected"
               /\ recState[c] = "none"
               /\ mediaRecorder # c
       /\ (finalStream[c].video # "none" /\ supported \cap Candidates = {})
            => startErr[c] = "No supported video MIME type found"
  /\ \A k \in StopCalls :
       stopPromise[k] = "resolved" =>
         /\ stopBlob[k].type \in Candidates
         /\ FirstSupported(stopBlob[k].type)

\* C11, a state where its case happened: the safety timeout resolved a stop
\* call with an artifact of the first supported type, which is not the
\* first of the list.
C11_FallbackArtifactTyped ==
  \E k \in StopCalls :
    /\ stopPromise[k] = "resolved"
    /\ settledBy[k] = "finishStop"
    /\ stopBlob[k].type = types[3]
    /\ types[4] \in supported

\* A call of startRecording() passes its first lines in this step.
StartsNow == \E c \in Calls : startPc[c] = "idle" /\ startPc'[c] = "awaitDisplay"

\* C12: the data-available handler appends a chunk at the end iff it is
\* non-empty and nothing else writes the chunk sequence but the reset at a
\* session's start, so the sequence is the non-empty chunks in arrival
\* order; an artifact is sealed from exactly the chunks there are (its size
\* is the sum of theirs), and previewUrl is set when it is non-empty.
C12_ChunkOrder ==
  /\ [](/\ \A size \in ChunkSizes :
             ondataavailable(Cur, size)
               = [Cur EXCEPT !.chunks = IF size > 0 THEN Append(@, size)
                                        ELSE @]
        /\ \A i \in 1..Len(chunks) : chunks[i] > 0)
  /\ [][chunks' # chunks =>
          \/ StartsNow /\ chunks' = <<>>
          \/ /\ ~StartsNow
             /\ \E size \in ChunkSizes \ {0} : chunks' = Append(chunks, size)
             /\ Cur' = [Cur EXCEPT !.chunks = chunks']]_vars
  /\ [][\A r \in Calls :
          sealed'[r] # sealed[r] =>
            /\ chunks' = chunks
            /\ blobOf'[r].size = BlobSize(chunks)
            /\ BlobSize(chunks) > 0 => previewUrl' = r]_vars

\* C12, a state where its case happened: two chunks of different sizes
\* arrived and the artifact sealed from them has the sum of their sizes.
C12_SealedFromTwoChunks ==
  \E r \in Calls :
    /\ Len(chunks) = 2
    /\ chunks[1] # chunks[2]
    /\ sealed[r] >= 1
    /\ blobOf[r].size = chunks[1] + chunks[2]
    /\ previewUrl = r

\* The failures of startRecording() that C13 names.
FatalStart == {"Permission denied",
               "No supported video MIME type found",
               "MediaRecorder constructor failed"}

\* C13: after a fatal failure (display denied, no supported content type,
\* recorder construction failed, recorder error, empty artifact at
\* finalize) error holds a message and the caller's pending promise is
\* rejected.
C13_FatalLeavesMessage ==
  /\ \A c \in Calls :
       /\ (c = Session(Cur) /\ startErr[c] \in FatalStart)
            => startPc[c] = "rejected" /\ error # "null"
       /\ (c = Session(Cur) /\ recErrored[c]) => error # "null"
  /\ \A k \in StopCalls :
       /\ settledBy[k] = "onerror"
            => stopPromise[k] = "rejected" /\ error # "null"
       /\ (Accepted(k) /\ Settled(k) /\ stopReason[k] = "No data recorded")
            => stopPromise[k] = "rejected" /\ error # "null"

\* C14: one capture session is live at a time, however the calls of
\* startRecording() interleave: at most one recorder records, at most one
\* audio context is open, at most one timer interval runs, and every
\* display stream with a live track is the one the instance holds.
C14_OneLiveSession ==
  /\ Cardinality({r \in Calls : recState[r] = "recording"}) <= 1
  /\ Cardinality(ctxOpen) <= 1
  /\ Cardinality(intervals) <= 1
  /\ \A d \in Calls :
       DisplayTracks(Cur, d) \cap live # {} => displayStream = d

\* C15: startRecording() discards the preview reference of the previous
\* session: the step that starts a call leaves previewUrl null, so that
\* previewUrl cannot refer to an earlier session's artifact while the
\* later session is acquiring or recording.
C15_PreviewDiscardedAtStart ==
  [][StartsNow => previewUrl' = NULL]_vars

\* The distance between two coordinates, and the axes of a layout.
Dist(a, b) == IF a >= b THEN a - b ELSE b - a
Axes == {"x", "y", "size"}

\* C16 as stated: after 20 or more layout steps that follow the last
\* setWebcamLayout call, current is within 1% of the last target on every
\* axis, whether the 1% is taken of the target's value, of the canvas, or
\* of the distance current had to cover.
C16_WithinOnePercent ==
  layoutSteps >= 20 =>
    \A a \in Axes :
      LET d == Dist(currentLayout[a], targetLayout[a])
      IN  \/ 100 * d <= targetLayout[a]
          \/ 100 * d <= 1000000
          \/ 100 * d <= Dist(layoutFrom[a], targetLayout[a])

\* C16 (amended): after 20 or more layout steps that follow the last
\* setWebcamLayout call, the distance from current to the last target is,
\* on every axis, at most 4% of the distance current had from it when it
\* was set, up to the rounding of the arithmetic (6 millionths here); and
\* while the target does not change, the distance on an axis never
\* increases from one step to the next and current never passes the target.
C16_LayoutConverges ==
  /\ [](layoutSteps >= 20 =>
          \A a \in Axes :
            100 * Dist(currentLayout[a], targetLayout[a])
              <= 4 * Dist(layoutFrom[a], targetLayout[a]) + 600)
  /\ [][targetLayout' = targetLayout =>
          \A a \in Axes :
            /\ Dist(currentLayout'[a], targetLayout[a])
                 <= Dist(currentLayout[a], targetLayout[a])
            /\ currentLayout[a] <= targetLayout[a]
                 => currentLayout'[a] <= targetLayout[a]
            /\ currentLayout[a] >= targetLayout[a]
                 => currentLayout'[a] >= targetLayout[a]]_vars

\* C16 witness: the target was set again while current was still moving,
\* and 20 steps later current has moved on every axis it had to.
C16_SettledAfterRetarget ==
  /\ layoutSets >= 2
  /\ layoutSteps >= 20
  /\ layoutFrom \notin {LayoutOf(mode) : mode \in LayoutModes}
  /\ layoutFrom # DefaultLayout
  /\ \A a \in Axes : currentLayout[a] # layoutFrom[a]

\* C17: a denied webcam acquisition makes initWebcam() return null and set
\* webcamEnabled false, and nothing else: in every reachable state the
\* denied call changes webcamEnabled only, and the step in which the
\* prompt of mount or toggle is denied leaves isRecording, error, the
\* recorder, the display stream and all the rest as they were.
C17_DenialOnlyDisables ==
  /\ [](initWebcam(Cur, FALSE)
          = [Cur EXCEPT !.webcamEnabled = FALSE, !.camReturn = "null"])
  /\ [][camCalls' < camCalls /\ camReturn' = "null" =>
          Cur' = [Cur EXCEPT !.webcamEnabled = FALSE, !.camReturn = "null",
                             !.camCalls = @ - 1]]_vars

\* C17 witness: the prompt of a toggle was denied after a session was
\* recorded, and the instance holds no webcam stream and no error.
C17_DeniedAfterSession ==
  /\ camReturn = "null"
  /\ ~webcamEnabled
  /\ toggles >= 1
  /\ camCalls = 0
  /\ previewUrl # NULL
  /\ error = "null"

\* The latest two toggles switched the webcam off and then on, and no
\* other initWebcam() call was pending when it was switched on.
OffThenOn ==
  /\ Len(toggleLog) >= 2
  /\ toggleLog[Len(toggleLog) - 1].dir = "off"
  /\ toggleLog[Len(toggleLog)] = [dir |-> "on", pending |-> 0]

\* C18: stopWebcam() stops the track of the held webcam stream and clears
\* the reference, and a second call changes nothing; the toggle that
\* switches the webcam off does so; and when the webcam was switched off
\* and then on, the grant of the new acquisition ends with webcamEnabled
\* true and a stream held whose track was not live before.
C18_StopWebcamAndRetoggle ==
  /\ [](LET s == stopWebcam(Cur)
        IN  /\ s.webcamStream = NULL
            /\ \A t \in s.live : t[1] = "webcam" => t[2] # webcamStream
            /\ stopWebcam(s) = s)
  /\ [][toggles' = toggles + 1 /\ webcamStream # NULL =>
          /\ webcamStream' = NULL
          /\ ~webcamEnabled'
          /\ <<"webcam", webcamStream>> \notin live']_vars
  /\ [][OffThenOn /\ camCalls' < camCalls /\ camReturn' = "stream" =>
          /\ webcamEnabled'
          /\ webcamStream' # NULL
          /\ <<"webcam", webcamStream'>> \in live' \ live]_vars

\* C18 witness: the webcam was switched off and on again, and the new
\* stream is held.
C18_FreshStreamHeld ==
  /\ OffThenOn
  /\ camCalls = 0
  /\ camReturn = "stream"
  /\ webcamEnabled
  /\ webcamStream # NULL
  /\ <<"webcam", webcamStream>> \in live

\* C19: at every quiescent point after mount (no update of the stream prop
\* waits for its flush), a non-null stream prop means that the video
\* element is rendered and that its srcObject is the prop.
C19_PreviewShowsStream ==
  previewFile # "none" /\ ~previewDirty /\ propsStream # NULL
    => videoRendered /\ srcObject = propsStream

\* C20: the watch view polls until a terminal status only: once the
\* initial load or a poll has processed a response whose status is not
\* PROCESSING, or the initial load has failed, no polling timer is active
\* or held and no further poll is issued; and at most one polling timer
\* is active at any time.
C20_PollsUntilTerminal ==
  /\ [](Cardinality(pollTimers) <= 1)
  /\ [](terminalSeen => pollTimers = {} /\ pollingInterval = NULL)
  /\ [][terminalSeen => pollsIssued' = pollsIssued]_vars

\* C20 witness: a poll got a terminal status while two later polls were
\* still awaiting their answers.
C20_TerminalWithPollsInFlight ==
  /\ terminalSeen
  /\ loadPc = "done"
  /\ pollsIssued >= 3
  /\ pollsInFlight >= 2
  /\ watchStatus = "READY"
  /\ ~watchUnmounted

\* What cleanup() leaves behind for the session in progress: no frame
\* callback pending, no hidden video element attached, no live track of the
\* display stream or of the final stream, no open audio context, no active
\* timer interval, no webcam stream.
Released ==
  /\ rafPending = <<>>
  /\ attached = {}
  /\ \A c \in Calls :
       (DisplayTracks(Cur, c) \cup FinalTracks(Cur, c)) \cap live = {}
  /\ ctxOpen = {}
  /\ intervals = {}
  /\ webcamStream = NULL

\* C21: whenever a session stops recording, by whatever path, cleanup has
\* run by the time isRecording becomes false: the step that makes
\* isRecording false ends with everything released.
C21_ReleasedWhenStopped ==
  [][isRecording /\ ~isRecording' => Released']_vars

\* Recorder r, the one of the session in progress, fails in this step
\* while it records.
FailsNow(r) ==
  /\ ~recErrored[r] /\ recErrored'[r]
  /\ recState[r] = "recording"
  /\ mediaRecorder = r
  /\ isRecording

\* C22: a recorder runtime error during Recording is terminal: the step of
\* the error ends with isRecording false, error set, no stopRecording()
\* promise pending and everything released; and the failed recorder
\* publishes no artifact afterwards.
C22_ErrorIsTerminal ==
  /\ [][\A r \in Calls : FailsNow(r) =>
          /\ ~isRecording'
          /\ error' # "null"
          /\ \A k \in StopCalls : stopPromise'[k] # "pending"
          /\ Released']_vars
  /\ [][\A r \in Calls : recErrored[r] => sealed'[r] = sealed[r]]_vars

\* C23: the compositor loop is cancellable from any state: once cleanup()
\* has run for a session, no frame callback of its loop executes and
\* none of its frames is drawn, whether the first callback had run or
\* not and whatever the number of frames throttled or drawn before; and
\* cleanup() called again, or without a loop, leaves the callbacks alone.
C23_LoopCancelled ==
  /\ [][\A c \in Calls :
          callHist[c].cleanups > 0 =>
            callbacks'[c] = callbacks[c] /\ drawn'[c] = drawn[c]]_vars
  /\ [](LET s == cleanup(Cur)
        IN  /\ cleanup(s).rafPending = s.rafPending
            /\ cleanup(s).animationFrameId = NULL
            /\ animationFrameId = NULL => s.rafPending = rafPending)

\* The step makes the session Recording.
RecordingBegins == ~isRecording /\ isRecording'

\* C24: the elapsed timer runs in lockstep with the session: a timer
\* interval is active if and only if isRecording is true; recordingTime is
\* 0 when Recording begins, and it changes only by that reset and by an
\* increment of one while the session is Recording.
C24_TimerInLockstep ==
  /\ [](intervals # {} <=> isRecording)
  /\ [][RecordingBegins => recordingTime' = 0]_vars
  /\ [][recordingTime' # recordingTime =>
          \/ RecordingBegins
          \/ isRecording /\ recordingTime' = recordingTime + 1]_vars

\* The handles cleanup() releases are all null.
HandlesNull(s) ==
  /\ s.animationFrameId = NULL
  /\ s.displayVideoEl = NULL
  /\ s.webcamVideoEl = NULL
  /\ s.displayStream = NULL
  /\ s.mediaStream = NULL
  /\ s.audioContext = NULL
  /\ s.audioDestination = NULL
  /\ s.timerInterval = NULL
  /\ s.webcamStream = NULL

\* cleanup() runs in this step.
CleansNow == \E c \in Calls : callHist'[c].cleanups > callHist[c].cleanups

\* C25: cleanup() is idempotent and tolerates partial sessions: called in
\* any reachable state it leaves every handle null, whichever of them were
\* never set or already released, and a second call right after changes
\* nothing but the count of calls; the steps of the program in which
\* cleanup() runs end with the handles null.
C25_CleanupIdempotent ==
  /\ [](LET s == cleanup(Cur)
        IN  /\ HandlesNull(s)
            /\ [cleanup(s) EXCEPT !.cleanups = s.cleanups,
                                  !.callHist = s.callHist] = s)
  /\ [][CleansNow => HandlesNull(Cur')]_vars

\* C25 witness: a start failed for want of a MIME type after the audio
\* context was created and without a compositor, and cleanup() ran on that
\* partial session.
C25_CleanupOfPartialSession ==
  \E c \in Calls :
    /\ startErr[c] = "No supported video MIME type found"
    /\ callHist[c].cleanups >= 1
    /\ callHist[c].contexts = 1
    /\ callHist[c].loops = 0
    /\ HandlesNull(Cur)
    /\ ctxOpen = {}

\* The number of frames loop c draws in this step.
DrawnNow(c) == drawn'[c] - drawn[c]

\* A callback of loop c runs in this step less than FRAME_INTERVAL after
\* the last frame the loop drew.
Throttled(c) ==
  /\ callbacks'[c] > callbacks[c]
  /\ frameTime' - lastFrameTime[c] < FRAME_INTERVAL

\* C26: the compositor throttles itself.  A loop draws a frame only
\* FRAME_INTERVAL or more after the frame it drew before, and records the
\* time of the frame; callbacks that come earlier draw nothing and change
\* neither the layout nor the recorded time; a loop draws at most once for
\* one timestamp, and the layout step is applied once for each frame drawn.
C26_SelfThrottled ==
  /\ [][\A c \in Calls :
          DrawnNow(c) > 0 =>
            /\ frameTime' - lastFrameTime[c] >= FRAME_INTERVAL
            /\ lastFrameTime'[c] = frameTime']_vars
  /\ [][\A c \in Calls :
          Throttled(c) =>
            /\ DrawnNow(c) = 0
            /\ lastFrameTime'[c] = lastFrameTime[c]
            /\ (\A d \in Calls \ {c} : DrawnNow(d) = 0) =>
                 /\ currentLayout' = currentLayout
                 /\ targetLayout' = targetLayout
                 /\ layoutSteps' = layoutSteps]_vars
  /\ [][/\ \A c \in Calls : DrawnNow(c) \in {0, 1}
        /\ layoutSteps' - layoutSteps
             = Cardinality({c \in Calls : DrawnNow(c) = 1})]_vars

\* C26 witness: a loop has drawn two frames, one frame between them was
\* throttled, and the callbacks requested twice by a drawn frame ran.
C26_DrawnAndThrottled ==
  \E c \in Calls :
    /\ drawn[c] >= 2
    /\ frames > drawn[c]
    /\ callbacks[c] > frames
    /\ layoutSteps = drawn[c]

\* Loop c draws the overlay in this step.
OverlayNow(c) == overlays'[c] > overlays[c]

\* C27: a frame draws the overlay only while a webcam stream is held, and
\* once the webcam stream a compositor session records from has been
\* released, no later frame of that session draws the overlay: an overlay
\* is drawn only from a webcam stream whose track is still live.
C27_NoOverlayAfterRelease ==
  /\ [][\A c \in Calls : OverlayNow(c) => webcamStream # NULL]_vars
  /\ [][\A c \in Calls :
          OverlayNow(c) => <<"webcam", camSource[c]>> \in live]_vars

\* C28: setWebcamLayout stores the layout it is given as the target and
\* leaves the current layout as it is; the current layout changes only in
\* the step of a drawn frame, which leaves the target alone; before the
\* first setWebcamLayout current and target are both {x: 0.1, y: 0.9,
\* size: 0.09}.
C28_TargetSetCurrentEased ==
  /\ [](\A mode \in LayoutModes :
          LET s == setWebcamLayout(Cur, LayoutOf(mode))
          IN  /\ s.targetLayout = LayoutOf(mode)
              /\ s.currentLayout = currentLayout)
  /\ [][layoutSets' # layoutSets =>
          /\ currentLayout' = currentLayout
          /\ \E mode \in LayoutModes : targetLayout' = LayoutOf(mode)]_vars
  /\ [][currentLayout' # currentLayout =>
          /\ layoutSteps' = layoutSteps + 1
          /\ layoutSets' = layoutSets
          /\ targetLayout' = targetLayout]_vars
  /\ [](layoutSets = 0 =>
          /\ currentLayout = [x |-> 100000, y |-> 900000, size |-> 90000]
          /\ targetLayout = currentLayout)

\* C28 witness: a layout was set while the overlay was on its way to an
\* earlier one: the target is the new layout and what is drawn is still
\* where the frames had brought it.
C28_RetargetedInFlight ==
  /\ layoutSets = 2
  /\ layoutSteps = 0
  /\ currentLayout # targetLayout
  /\ currentLayout # DefaultLayout
  /\ \A mode \in LayoutModes : currentLayout # LayoutOf(mode)

\* W is an integer nearest to n * a / b.
Nearest(W, n, a, b) ==
  /\ 2 * (W * b - n * a) <= b
  /\ 2 * (n * a - W * b) <= b

\* C29: for positive settings (w, h) of the display track the canvas
\* (W, H) is no wider than 1920 and than w and no higher than 1080 and
\* than h; it is (w, h) when w <= 1920 and h <= 1080, and otherwise W and
\* H are w * r and h * r rounded to an integer, r the smaller of 1920 / w
\* and 1080 / h.
C29_CanvasWithinCaps ==
  (/\ settings.width > 0 /\ settings.height > 0
   /\ canvas # [width |-> 0, height |-> 0]) =>
    LET w == settings.width
        h == settings.height
        W == canvas.width
        H == canvas.height
    IN  /\ W <= 1920 /\ H <= 1080
        /\ W <= w /\ H <= h
        /\ (w <= 1920 /\ h <= 1080) => (W = w /\ H = h)
        /\ (w > 1920 \/ h > 1080) =>
             IF 1920 * h <= 1080 * w
             THEN Nearest(W, w, 1920, w) /\ Nearest(H, h, 1920, w)
             ELSE Nearest(W, w, 1080, h) /\ Nearest(H, h, 1080, h)

\* C29 witness: a display larger than the caps in both directions and
\* higher than 16:9 gets a canvas of the full height and less than the
\* full width.
C29_DownscaledByHeight ==
  /\ settings.width > MAX_WIDTH
  /\ settings.height > MAX_HEIGHT
  /\ canvas.height = MAX_HEIGHT
  /\ canvas.width < MAX_WIDTH
  /\ canvas.width > 0

\* The live tracks session c acquired or made: the tracks of its display
\* stream, its microphone track, its canvas track and its mixed audio
\* track.
SessionTracks(c) ==
  {t \in live : /\ t[2] = c
                /\ t[1] \in {"displayVideo", "displayAudio", "microphone",
                             "canvas", "mixed"}}

\* C30: once cleanup() has run for a session, no track the session
\* acquired is live: in the step in which cleanup() runs for session c the
\* display, microphone, canvas and mixed tracks of c and the webcam track
\* all end, whether the session recorded or failed on its way.
C30_NoTrackLeftLive ==
  [][\A c \in Calls :
       callHist'[c].cleanups > callHist[c].cleanups =>
         /\ SessionTracks(c)' = {}
         /\ \A t \in live' : t[1] # "webcam"]_vars

\* The compositor loop of session c runs: it was started and cleanup() has
\* not run since.
LoopRuns(c) == callHist[c].loops > 0 /\ callHist[c].cleanups = 0

\* C33: while the compositor loop runs at most one frame callback is
\* pending, and animationFrameId is the id of that callback, from the
\* first request of startCompositingLoop on.
C33_OnePendingCallback ==
  (\E c \in Calls : LoopRuns(c)) =>
    /\ Len(rafPending) <= 1
    /\ rafPending # <<>> => animationFrameId = rafPending[1].id

\* The watch view has unmounted and every metadata request it issued has
\* been answered.
UnmountedAndQuiet ==
  /\ watchUnmounted
  /\ loadPc # "awaiting"
  /\ pollsInFlight = 0

\* C34: once the watch view has unmounted and every metadata request in
\* flight, the initial load or a poll, has completed, no polling timer is
\* active, whatever the order of the answers and the unmount; an initial
\* load answered PROCESSING after the unmount starts no timer.
C34_NoTimerAfterUnmount == UnmountedAndQuiet => pollTimers = {}

\* C32: no webcam stream is leaked by overlapping acquisitions: whatever
\* the order of the initWebcam() of mount, of toggleWebcam() and of
\* startRecording() and of their answers, a webcam stream whose track is
\* live is the stream held in webcamStream.
C32_NoOrphanWebcamStream ==
  \A t \in live : t[1] = "webcam" => t[2] = webcamStream

\* The component unmounted while a startRecording() call was suspended in
\* an acquisition or in play(), and every pending completion has run since.
UnmountedInFlightAndQuiet ==
  /\ unmounted
  /\ \E c \in Calls :
       unmountPc[c] \in {"awaitDisplay", "awaitMic", "awaitWebcam",
                         "awaitPlayDisplay", "awaitPlayWebcam"}
  /\ \A c \in Calls : ~InFlight(c)
  /\ camCalls = 0

\* C31: when the component unmounts while startRecording() is suspended,
\* then once all pending completions have run no recorder is recording, no
\* acquired stream has a live track, no audio context is open, no frame
\* callback is pending and no timer interval runs.  The acquired streams
\* required to have no live track are the display stream and the webcam
\* stream; the microphone track, which no path of the program stops, is
\* left aside.
C31_UnmountReleasesAll ==
  UnmountedInFlightAndQuiet =>
    /\ \A r \in Calls : recState[r] # "recording"
    /\ \A t \in live : t[1] \notin {"displayVideo", "displayAudio", "webcam"}
    /\ ctxOpen = {}
    /\ rafPending = <<>>
    /\ intervals = {}

====
